---- MODULE Spec2Model ----
(***************************************************************************)
(* State-machine model of the two front ends of the PDF block editor:      *)
(*   - the standalone editor, src/script.js (pdf.js extraction, composite  *)
(*     transforms, selection, inspector and keyboard handlers);            *)
(*   - the server-backed editor, src/app/static/app.js.                    *)
(* A behaviour runs one of the two front ends (variable variant).          *)
(*                                                                         *)
(* Numbers.  DOM data-* attributes hold decimal strings; the code writes   *)
(* them with Number -> String and reads them back with parseFloat/Number,  *)
(* which returns the number written.  The model stores the numbers.  All   *)
(* numbers are integers; rotations are whole multiples of 90 degrees, for  *)
(* which Math.cos / Math.sin are taken at their exact values.              *)
(***************************************************************************)
EXTENDS Integers, Sequences, FiniteSets, TLC

VARIABLES
    variant,          \* which front end runs: "standalone" or "server"
    textLayerApi,     \* script.js: pdfjsLib.renderTextLayer is available
    canvas,           \* script.js: #canvas, the sequence of attached page wrappers
    nodes,            \* script.js: the block elements alive on the heap
    selectedElement,  \* script.js:37
    currentPdf,       \* script.js:36
    tasks,            \* script.js: the pdfInput change handlers / renderPdf runs
    nextId,           \* script.js: number of ids createElementId has handed out
    thrown,           \* script.js: the last handler ended in an uncaught exception
    pagesContainer,   \* app.js:7, the page wrappers below #pages and their element nodes
    state,            \* app.js:1-5: document, selectedElementId, dirty
    requests,         \* app.js: the fetch calls (upload, save) not yet answered
    exportRuns,       \* script.js: the runs of the exportPdfButton click handler
    budget            \* gestures (file picks, edits) the behaviour may still perform

vars == <<variant, textLayerApi, canvas, nodes, selectedElement, currentPdf,
          tasks, nextId, thrown, pagesContainer, state, requests, exportRuns, budget>>

-----------------------------------------------------------------------------
(* Bounds of the model *)

MaxLoads == 2      \* files picked in #pdfInput during one behaviour
MaxGestures == 2   \* file picks and edit gestures (nudge, drag, rotate, ...) together
EditDepth == 2     \* edit gestures of an editing session on a loaded document
OpsDepth == 1      \* edit gestures of a session that offers every operation
LayerDepth == 4    \* layer button presses of a layering session
LoadDepth == 1     \* files picked during a loading session
ExportDepth == 2   \* export clicks and edit gestures of an export session
MaxCoord == 1      \* base axis components range over -MaxCoord..MaxCoord

NULL == 0

Range(s) == {s[i] : i \in 1..Len(s)}

Max(a, b) == IF a >= b THEN a ELSE b

Min(a, b) == IF a <= b THEN a ELSE b

-----------------------------------------------------------------------------
(* The documents offered to the editor (the output of pdf.js for them) *)

\* A 2x3 matrix is <<a, b, c, d, e, f>>: X axis (a,b), Y axis (c,d), translate (e,f).
Identity6 == <<1, 0, 0, 1, 0, 0>>

NoBBox == [x |-> 0, y |-> 0, width |-> 0, height |-> 0, ok |-> FALSE]

BBox(x, y, w, h) == [x |-> x, y |-> y, width |-> w, height |-> h, ok |-> TRUE]

\* Top-level children of the svg pdf.js builds for a page, in document order.
\* tag "defs" is the shared definitions node; ok = FALSE: getBBox throws.
SvgChildren(doc, pageNumber) ==
    CASE doc = 1 /\ pageNumber = 1 ->
            << [tag |-> "defs", bbox |-> NoBBox],
               [tag |-> "g", bbox |-> BBox(10, 20, 30, 40)] >>
      [] doc = 1 /\ pageNumber = 2 ->
            << [tag |-> "g", bbox |-> BBox(5, 5, 0, 8)],
               [tag |-> "g", bbox |-> NoBBox] >>
      [] doc = 2 /\ pageNumber = 1 ->
            << [tag |-> "g", bbox |-> BBox(3, 4, 6, 6)] >>
      [] doc = 3 /\ pageNumber = 1 ->
            << [tag |-> "defs", bbox |-> NoBBox],
               [tag |-> "g", bbox |-> BBox(10, 20, 30, 40)],
               [tag |-> "g", bbox |-> BBox(1, 2, 7, 0)],
               [tag |-> "g", bbox |-> NoBBox],
               [tag |-> "path", bbox |-> BBox(0, 0, 6, 9)] >>
      [] OTHER -> << >>

\* Text runs of a page: the run's placement matrix (item.transform), its advance
\* width, and the transform of the div pdf.js' text layer builds for it
\* ("none": no matrix(...) in the computed or inline transform).
TextItems(doc, pageNumber) ==
    CASE doc = 1 /\ pageNumber = 1 ->
            << [transform |-> <<12, 0, 0, -12, 51, 699>>, width |-> 30,
                css |-> <<16, 0, 0, 16, 68, 24>>, hasCss |-> TRUE,
                fontWeight |-> "700", fontStyle |-> ""] >>
      [] doc = 1 /\ pageNumber = 2 ->
            << [transform |-> <<9, 3, 0, -12, 30, 60>>, width |-> 15,
                css |-> Identity6, hasCss |-> FALSE,
                fontWeight |-> "", fontStyle |-> "italic"] >>
      [] doc = 2 /\ pageNumber = 1 ->
            << [transform |-> <<0, 12, -12, 0, 90, 300>>, width |-> 21,
                css |-> Identity6, hasCss |-> FALSE,
                fontWeight |-> "", fontStyle |-> ""] >>
      [] doc = 3 /\ pageNumber = 1 ->
            << [transform |-> <<12, 0, 0, -12, 51, 699>>, width |-> 30,
                css |-> <<16, 0, 0, 16, 68, 24>>, hasCss |-> TRUE,
                fontWeight |-> "", fontStyle |-> ""],
               [transform |-> <<6, 0, 0, -6, 21, 99>>, width |-> 12,
                css |-> Identity6, hasCss |-> FALSE,
                fontWeight |-> "700", fontStyle |-> "italic"] >>
      [] OTHER -> << >>

numPages(doc) == IF doc = 1 THEN 2 ELSE 1

\* Page height in points (media box), used by page.getViewport.
PageHeightPt(doc, pageNumber) == 720

Docs == {1, 2}

\* A file picked by the user: the document it holds and where loading it breaks.
\*   failAt = "none" | "decode" | "getPage" | "render" | "text"; failPage: the page.
\*   svgFails: pages whose getOperatorList / getSVG rejects (caught, script.js:425).
File(doc, failAt, failPage, svgFails) ==
    [doc |-> doc, failAt |-> failAt, failPage |-> failPage, svgFails |-> svgFails]

Files ==
    { File(1, "none", 0, {}),
      File(2, "none", 0, {}),
      File(2, "decode", 0, {}),
      File(2, "getPage", 1, {}),
      File(1, "render", 2, {}) }

-----------------------------------------------------------------------------
(* TransformEngine: script.js:789-830 *)

\* Math.cos / Math.sin of rotation * PI / 180, for whole multiples of 90 degrees.
CosDeg(rotation) ==
    CASE rotation % 360 = 0 -> 1
      [] rotation % 360 = 180 -> -1
      [] OTHER -> 0

SinDeg(rotation) ==
    CASE rotation % 360 = 90 -> 1
      [] rotation % 360 = 270 -> -1
      [] OTHER -> 0

\* script.js:804-812: one axis vector turned by the rotation.
rotateAxis(axis, cos, sin) ==
    << axis[1] * cos - axis[2] * sin, axis[1] * sin + axis[2] * cos >>

\* script.js:814-822: one axis vector times its scale.
scaleAxis(axis, scale) == << axis[1] * scale, axis[2] * scale >>

\* compositeMatrix scaling along the page's x and y directions instead of
\* along the rotated axes.
compositeMatrix_PageScale(element) ==
    LET cos == CosDeg(element.rotation)
        sin == SinDeg(element.rotation)
        rotatedXAxis == rotateAxis(element.baseXAxis, cos, sin)
        rotatedYAxis == rotateAxis(element.baseYAxis, cos, sin)
    IN  << rotatedXAxis[1] * element.scaleX, rotatedXAxis[2] * element.scaleY,
           rotatedYAxis[1] * element.scaleX, rotatedYAxis[2] * element.scaleY,
           element.baseTranslate[1] + element.translateX,
           element.baseTranslate[2] + element.translateY >>

\* compositeMatrix reading the default axes [1, 0] and [0, 1] in place of the
\* element's base axes.
compositeMatrix_UnitAxes(element) ==
    LET cos == CosDeg(element.rotation)
        sin == SinDeg(element.rotation)
    IN  << cos * element.scaleX, sin * element.scaleX,
           (0 - sin) * element.scaleY, cos * element.scaleY,
           element.baseTranslate[1] + element.translateX,
           element.baseTranslate[2] + element.translateY >>

\* compositeMatrix with the base translate scaled like the axes.
compositeMatrix_ScaledTranslate(element) ==
    LET cos == CosDeg(element.rotation)
        sin == SinDeg(element.rotation)
        bx == element.baseXAxis
        by == element.baseYAxis
    IN  << (bx[1] * cos - bx[2] * sin) * element.scaleX,
           (bx[1] * sin + bx[2] * cos) * element.scaleX,
           (by[1] * cos - by[2] * sin) * element.scaleY,
           (by[1] * sin + by[2] * cos) * element.scaleY,
           element.baseTranslate[1] * element.scaleX + element.translateX,
           element.baseTranslate[2] * element.scaleY + element.translateY >>

\* The matrix applyCompositeTransform computes from the element's dataset.
compositeMatrix(element) ==
    LET baseXAxis == element.baseXAxis
        baseYAxis == element.baseYAxis
        baseTranslate == element.baseTranslate
        cos == CosDeg(element.rotation)
        sin == SinDeg(element.rotation)
        rotatedXAxis == rotateAxis(baseXAxis, cos, sin)
        rotatedYAxis == rotateAxis(baseYAxis, cos, sin)
        xAxis == scaleAxis(rotatedXAxis, element.scaleX)
        yAxis == scaleAxis(rotatedYAxis, element.scaleY)
        tx == baseTranslate[1] + element.translateX
        ty == baseTranslate[2] + element.translateY
    IN  << xAxis[1], xAxis[2], yAxis[1], yAxis[2], tx, ty >>

applyCompositeTransform(element) ==
    [element EXCEPT !.computedMatrix = compositeMatrix(element)]

-----------------------------------------------------------------------------
(* SceneModel of script.js: block elements, selection *)

\* createElementId (script.js:51-56): crypto.randomUUID(), a value never handed
\* out before; the n-th call of a behaviour is modelled as returning n.
createElementId(issued) == issued + 1

\* Handles of the elements attached below #canvas.
Attached(cv) == UNION {Range(cv[i].children) : i \in 1..Len(cv)}

\* Handles the program can still reach: attached elements, the elements of the
\* pages still being built, and the selection.  The rest is garbage.
Reachable(cv, ts, sel) ==
    Attached(cv)
      \cup UNION {Range(ts[t].pageElement) : t \in DOMAIN ts}
      \cup (IF sel = NULL THEN {} ELSE {sel})

Collect(ns, cv, ts, sel) ==
    [h \in (DOMAIN ns) \cap Reachable(cv, ts, sel) |-> ns[h]]

\* deselectElement that unmarks the element and keeps holding it.
deselectElement_KeepsHolding(ns, sel) ==
    IF sel = NULL
      THEN [nodes |-> ns, selectedElement |-> NULL]
      ELSE [nodes |-> [ns EXCEPT ![sel].selected = FALSE], selectedElement |-> sel]

\* script.js:733-739.  Returns the elements and the selection afterwards.
deselectElement(ns, sel) ==
    IF sel = NULL
      THEN [nodes |-> ns, selectedElement |-> NULL]
      ELSE [nodes |-> [ns EXCEPT ![sel].selected = FALSE], selectedElement |-> NULL]

\* selectElement without the call of deselectElement.
selectElement_KeepsPrevious(ns, sel, element) ==
    IF sel = element
      THEN [nodes |-> ns, selectedElement |-> sel]
      ELSE [nodes |-> [ns EXCEPT ![element].selected = TRUE],
            selectedElement |-> element]

\* script.js:724-731.
selectElement(ns, sel, element) ==
    IF sel = element
      THEN [nodes |-> ns, selectedElement |-> sel]
      ELSE LET d == deselectElement(ns, sel)
           IN  [nodes |-> [d.nodes EXCEPT ![element].selected = TRUE],
                selectedElement |-> element]

\* script.js:657-675: the dataset defaults of lines 667-673 apply only to an
\* element without data-translate-x; every creation path sets it first.
initialiseEditableElement(element) == applyCompositeTransform(element)

\* script.js:341-346.
adjustLayer(element, delta) ==
    [element EXCEPT !.zIndex = Max(1, element.zIndex + delta)]

\* Index of the first page wrapper matched by
\* canvas.querySelector('[data-page-index="i"] .page'), or 0 for null.
findPage(cv, pageIndex) ==
    LET hits == {i \in 1..Len(cv) : cv[i].pageIndex = pageIndex}
    IN  IF hits = {} THEN 0 ELSE CHOOSE i \in hits : \A j \in hits : i <= j

-----------------------------------------------------------------------------
(* ElementExtractor of script.js *)

CSS_UNITS_NUM == 4

CSS_UNITS_DEN == 3

\* page.getViewport({scale: CSS_UNITS}).transform for an unrotated page, times
\* CSS_UNITS_DEN: pdf.js flips the y axis and scales by 96/72.
viewportTransform(doc, pageNumber) ==
    << CSS_UNITS_NUM, 0, 0, -CSS_UNITS_NUM, 0, CSS_UNITS_NUM * PageHeightPt(doc, pageNumber) >>

\* pdfjsLib.Util.transform(m1, m2), with m1 given times CSS_UNITS_DEN.
UtilTransform(m1, m2) ==
    << (m1[1] * m2[1] + m1[3] * m2[2]) \div CSS_UNITS_DEN,
       (m1[2] * m2[1] + m1[4] * m2[2]) \div CSS_UNITS_DEN,
       (m1[1] * m2[3] + m1[3] * m2[4]) \div CSS_UNITS_DEN,
       (m1[2] * m2[3] + m1[4] * m2[4]) \div CSS_UNITS_DEN,
       (m1[1] * m2[5] + m1[3] * m2[6] + m1[5]) \div CSS_UNITS_DEN,
       (m1[2] * m2[5] + m1[4] * m2[6] + m1[6]) \div CSS_UNITS_DEN >>

\* Math.hypot on integers whose hypotenuse is an integer.
Hypot(x, y) ==
    LET sq == x * x + y * y
    IN  CHOOSE r \in 0..(sq + 1) : r * r <= sq /\ (r + 1) * (r + 1) > sq

\* script.js:499-510, on the transform of a text-layer div.
parseMatrixTransform(item) == IF item.hasCss THEN item.css ELSE Identity6

\* The dataset and style a freshly built block element carries.
\* fontWeight, fontStyle: dataset.originalFontWeight / originalFontStyle, which
\* the text paths also write to the style (script.js:543-553, 621-637); a
\* vector block has neither ("").  fontSize, lineHeight, opacity: the inline
\* style properties, << >> while unset; the text paths set font size and line
\* height to the font height (script.js:549-550, 633-634), nothing sets opacity.
newElement(id, kind, doc, pageIndex, matrix, width, height, zIndex, fontWeight, fontStyle) ==
    [ elementId |-> id, kind |-> kind, doc |-> doc, pageIndex |-> pageIndex,
      originalFontWeight |-> fontWeight, originalFontStyle |-> fontStyle,
      fontWeight |-> fontWeight, fontStyle |-> fontStyle, textDecoration |-> "",
      fontSize |-> IF kind = "text" THEN <<height>> ELSE << >>,
      lineHeight |-> IF kind = "text" THEN <<height>> ELSE << >>,
      opacity |-> << >>,
      baseXAxis |-> <<matrix[1], matrix[2]>>,
      baseYAxis |-> <<matrix[3], matrix[4]>>,
      baseTranslate |-> <<matrix[5], matrix[6]>>,
      translateX |-> 0, translateY |-> 0, rotation |-> 0, scaleX |-> 1, scaleY |-> 1,
      width |-> width, height |-> height, zIndex |-> zIndex,
      selected |-> FALSE, computedMatrix |-> Identity6 ]

\* convertSvgToVectorBlocks without the test of line 448: a node whose box is
\* empty gets a block as well.
RECURSIVE convertSvgToVectorBlocks_KeepsEmpty(_, _, _, _, _)
convertSvgToVectorBlocks_KeepsEmpty(svgNodes, doc, pageIndex, issued, childCount) ==
    IF svgNodes = << >> THEN << >>
    ELSE LET node == Head(svgNodes)
             bbox == node.bbox
             skip == node.tag = "defs" \/ ~bbox.ok
         IN  IF skip
               THEN convertSvgToVectorBlocks_KeepsEmpty(Tail(svgNodes), doc, pageIndex,
                                                        issued, childCount)
               ELSE << initialiseEditableElement(
                         newElement(createElementId(issued), "vector", doc, pageIndex,
                                    <<1, 0, 0, 1, bbox.x, bbox.y>>,
                                    bbox.width, bbox.height, childCount + 1, "", "")) >>
                    \o convertSvgToVectorBlocks_KeepsEmpty(Tail(svgNodes), doc, pageIndex,
                                                           issued + 1, childCount + 1)

\* script.js:434-494: the blocks built from the svg's children, in order.
\* issued: ids handed out so far; childCount: pageElement.children.length.
RECURSIVE convertSvgToVectorBlocks(_, _, _, _, _)
convertSvgToVectorBlocks(svgNodes, doc, pageIndex, issued, childCount) ==
    IF svgNodes = << >> THEN << >>
    ELSE LET node == Head(svgNodes)
             bbox == node.bbox
             skip == \/ node.tag = "defs"
                     \/ ~bbox.ok
                     \/ bbox.width = 0
                     \/ bbox.height = 0
         IN  IF skip
               THEN convertSvgToVectorBlocks(Tail(svgNodes), doc, pageIndex, issued, childCount)
               ELSE << initialiseEditableElement(
                         newElement(createElementId(issued), "vector", doc, pageIndex,
                                    <<1, 0, 0, 1, bbox.x, bbox.y>>,
                                    bbox.width, bbox.height, childCount + 1, "", "")) >>
                    \o convertSvgToVectorBlocks(Tail(svgNodes), doc, pageIndex,
                                                issued + 1, childCount + 1)

\* script.js:522-566 (fallback path) and 589-652 (text-layer path).
RECURSIVE renderTextLayer(_, _, _, _, _, _, _)
renderTextLayer(items, useLayer, viewport, doc, pageIndex, issued, childCount) ==
    IF items = << >> THEN << >>
    ELSE LET item == Head(items)
             transform == UtilTransform(viewport, item.transform)
             matrixValues == parseMatrixTransform(item)
             matrix == IF useLayer THEN matrixValues ELSE transform
             fontHeight == Hypot(matrix[3], matrix[4])
             width == (item.width * CSS_UNITS_NUM) \div CSS_UNITS_DEN
             fontWeight == IF item.fontWeight = "" THEN "400" ELSE item.fontWeight
             fontStyle == IF item.fontStyle = "" THEN "normal" ELSE item.fontStyle
         IN  << initialiseEditableElement(
                   newElement(createElementId(issued), "text", doc, pageIndex,
                              matrix, width, fontHeight, childCount + 1,
                              fontWeight, fontStyle)) >>
             \o renderTextLayer(Tail(items), useLayer, viewport, doc, pageIndex,
                                issued + 1, childCount + 1)

\* renderSvgVectorLayer (script.js:405-428) for one page: the vector blocks, or
\* none when getOperatorList / getSVG rejects.  While convertSvgToVectorBlocks
\* runs, pageElement holds the background and the svg (2 children).
renderSvgVectorLayer(file, pageNumber, issued) ==
    IF pageNumber \in file.svgFails
      THEN << >>
      ELSE convertSvgToVectorBlocks(SvgChildren(file.doc, pageNumber), file.doc,
                                    pageNumber - 1, issued, 2)

\* textBlocks that builds no text block for a page whose vector tree failed.
textBlocks_NoneAfterVectorFailure(file, pageNumber, useLayer, issued, vectorCount) ==
    IF pageNumber \in file.svgFails THEN << >>
    ELSE LET present == 1 + vectorCount
             childCount == IF useLayer THEN present + 1 ELSE present
         IN  renderTextLayer(TextItems(file.doc, pageNumber), useLayer,
                             viewportTransform(file.doc, pageNumber), file.doc,
                             pageNumber - 1, issued, childCount)

\* renderTextLayer for one page whose pageElement holds the background and
\* vectorCount vector blocks; the text-layer path first appends its host div
\* (script.js:570-575).
textBlocks(file, pageNumber, useLayer, issued, vectorCount) ==
    LET present == 1 + vectorCount
        childCount == IF useLayer THEN present + 1 ELSE present
    IN  renderTextLayer(TextItems(file.doc, pageNumber), useLayer,
                        viewportTransform(file.doc, pageNumber), file.doc,
                        pageNumber - 1, issued, childCount)

\* The elements bs get the handles issued+1 .. issued+Len(bs).
Allocate(ns, issued, bs) ==
    [h \in (DOMAIN ns) \cup ((issued + 1)..(issued + Len(bs))) |->
        IF h \in DOMAIN ns THEN ns[h] ELSE bs[h - issued]]

Handles(issued, bs) == [i \in 1..Len(bs) |-> issued + i]

-----------------------------------------------------------------------------
(* Inputs of the handlers *)

\* The result of parseFloat on the text of an input field.
NaN == [finite |-> FALSE, value |-> 0]

Num(v) == [finite |-> TRUE, value |-> v]

\* Inputs of an editing session on a loaded document.
RotationInputs == {NaN, Num(90), Num(180), Num(270)}

ScaleInputs == {NaN, Num(0), Num(2), Num(-1)}

ArrowInputs ==
    {<<key, shiftKey>> : key \in {"ArrowUp", "ArrowDown", "ArrowLeft", "ArrowRight"},
                         shiftKey \in BOOLEAN}

\* The arrow keys of an editing session: each direction once, both step sizes.
EditArrowInputs ==
    {<<"ArrowUp", FALSE>>, <<"ArrowDown", TRUE>>, <<"ArrowLeft", FALSE>>, <<"ArrowRight", TRUE>>}

\* Per-frame deltas of a drag gesture (event.dx, event.dy).
DragDeltas == {<<3, -2>>}

\* deltaRect of a resize gesture, as multiples of the element's style size.
ResizeFactors == {<<1, 0>>, <<-1, 1>>}

\* Values typed into the font size and line height fields.
FontSizeInputs == {NaN, Num(20)}

LineHeightInputs == {NaN, Num(2)}

\* The text of the opacity field: a number (in hundredths), nothing, or text
\* that is no number.
EmptyText == [finite |-> FALSE, value |-> 0, empty |-> TRUE]

OtherText == [finite |-> FALSE, value |-> 0, empty |-> FALSE]

Hundredths(v) == [finite |-> TRUE, value |-> v, empty |-> FALSE]

OpacityInputs == {EmptyText, OtherText, Hundredths(50)}

\* Inputs of the gestures made while files load.
LoadRotationInputs == {Num(90)}

LoadScaleInputs == {Num(2)}

LoadArrowInputs == {<<"ArrowUp", TRUE>>}

LoadResizeFactors == {<<1, 0>>}

-----------------------------------------------------------------------------
(* EditController of script.js *)

\* translateSelection adding the step to both axes.
translateSelection_BothAxes(element, dx, dy) ==
    applyCompositeTransform(
        [element EXCEPT !.translateX = @ + dx + dy, !.translateY = @ + dx + dy])

\* script.js:332-339, on the selected element.
translateSelection(element, dx, dy) ==
    applyCompositeTransform(
        [element EXCEPT !.translateX = @ + dx, !.translateY = @ + dy])

\* dragMove adding the deltas to the base translate instead of the edit state.
dragMove_MovesBase(element, dx, dy) ==
    applyCompositeTransform(
        [element EXCEPT !.baseTranslate = << @[1] + dx, @[2] + dy >>])

\* script.js:686-694: the drag move listener of one element.
dragMove(element, dx, dy) ==
    applyCompositeTransform(
        [element EXCEPT !.translateX = @ + dx, !.translateY = @ + dy])

\* script.js:702-714: the resize move listener of one element.
resizeMove(element, deltaWidth, deltaHeight) ==
    LET width == Max(1, element.width)
        height == Max(1, element.height)
        newScaleX == (width + deltaWidth) \div width
        newScaleY == (height + deltaHeight) \div height
    IN  applyCompositeTransform(
            [element EXCEPT !.scaleX = @ * newScaleX, !.scaleY = @ * newScaleY])

\* setRotation without the call of applyCompositeTransform.
setRotation_NoRecompute(element, input) ==
    [element EXCEPT !.rotation = IF input.finite /\ input.value # 0 THEN input.value ELSE 0]

\* script.js:292-297.
setRotation(element, input) ==
    LET rotation == IF input.finite /\ input.value # 0 THEN input.value ELSE 0
    IN  applyCompositeTransform([element EXCEPT !.rotation = rotation])

\* script.js:299-305.
setScaleX(element, input) ==
    IF ~input.finite \/ input.value = 0
      THEN element
      ELSE applyCompositeTransform([element EXCEPT !.scaleX = input.value])

\* script.js:307-313.
setScaleY(element, input) ==
    IF ~input.finite \/ input.value = 0
      THEN element
      ELSE applyCompositeTransform([element EXCEPT !.scaleY = input.value])

\* script.js:229-234.
setFontSize(element, input) ==
    IF ~input.finite THEN element
    ELSE [element EXCEPT !.fontSize = <<input.value>>]

\* script.js:236-241.
setLineHeight(element, input) ==
    IF ~input.finite THEN element
    ELSE [element EXCEPT !.lineHeight = <<input.value>>]

\* script.js:253-256: the text of the field is assigned to style.opacity as it
\* is; the style declaration takes a number, drops the property on the empty
\* string and ignores any other text.
setOpacity(element, input) ==
    IF input.finite THEN [element EXCEPT !.opacity = <<input.value>>]
    ELSE IF input.empty THEN [element EXCEPT !.opacity = << >>]
    ELSE element

\* script.js:321-322: how far a clone is moved from its original.
DUPLICATE_OFFSET == 12

\* duplicateClone handing out a clone with the identity edit state.
duplicateClone_IdentityEdit(element, issued) ==
    [element EXCEPT !.elementId = createElementId(issued),
                    !.translateX = 0, !.translateY = 0,
                    !.rotation = 0, !.scaleX = 1, !.scaleY = 1]

\* script.js:317-322: the clone of the selected element before it is attached.
duplicateClone(element, issued) ==
    [element EXCEPT !.elementId = createElementId(issued),
                    !.translateX = @ + DUPLICATE_OFFSET,
                    !.translateY = @ + DUPLICATE_OFFSET]

\* What no handler of script.js writes.
appVars == <<variant, textLayerApi, pagesContainer, state, requests>>

\* What the handlers of script.js other than the export handler leave alone.
envVars == <<appVars, exportRuns>>

\* keydown with an arrow key: script.js:197-217.
KeyArrow(key, shiftKey) ==
    /\ variant = "standalone"
    /\ budget > 0
    /\ thrown' = FALSE
    /\ UNCHANGED <<envVars, canvas, selectedElement, currentPdf, tasks, nextId>>
    /\ IF selectedElement = NULL
         THEN UNCHANGED <<nodes, budget>>
         ELSE LET step == IF shiftKey THEN 5 ELSE 1
                  delta == CASE key = "ArrowUp" -> <<0, -step>>
                             [] key = "ArrowDown" -> <<0, step>>
                             [] key = "ArrowLeft" -> <<-step, 0>>
                             [] key = "ArrowRight" -> <<step, 0>>
              IN  /\ nodes' = [nodes EXCEPT ![selectedElement] =
                                  translateSelection(@, delta[1], delta[2])]
                  /\ budget' = budget - 1

\* deleteSelection without the guard of line 833: element is null and
\* element.remove() throws.
deleteSelection_Unguarded ==
    /\ variant = "standalone"
    /\ budget > 0
    /\ UNCHANGED <<envVars, currentPdf, tasks, nextId>>
    /\ IF selectedElement = NULL
         THEN /\ thrown' = TRUE
              /\ UNCHANGED <<canvas, nodes, selectedElement, budget>>
         ELSE LET element == selectedElement
                  d == deselectElement(nodes, selectedElement)
                  cv == [i \in 1..Len(canvas) |->
                            [canvas[i] EXCEPT !.children =
                                SelectSeq(@, LAMBDA h : h # element)]]
              IN  /\ thrown' = FALSE
                  /\ canvas' = cv
                  /\ selectedElement' = d.selectedElement
                  /\ nodes' = Collect(d.nodes, cv, tasks, d.selectedElement)
                  /\ budget' = budget - 1

\* deleteSelection removing the selected element's siblings along with it.
deleteSelection_WholePage ==
    /\ variant = "standalone"
    /\ budget > 0
    /\ thrown' = FALSE
    /\ UNCHANGED <<envVars, currentPdf, tasks, nextId>>
    /\ IF selectedElement = NULL
         THEN UNCHANGED <<canvas, nodes, selectedElement, budget>>
         ELSE LET element == selectedElement
                  d == deselectElement(nodes, selectedElement)
                  cv == [i \in 1..Len(canvas) |->
                            [canvas[i] EXCEPT !.children =
                                IF element \in Range(@) THEN << >> ELSE @]]
              IN  /\ canvas' = cv
                  /\ selectedElement' = d.selectedElement
                  /\ nodes' = Collect(d.nodes, cv, tasks, d.selectedElement)
                  /\ budget' = budget - 1

\* script.js:832-837, from the Delete/Backspace key (219-221) or the button (328-330).
deleteSelection ==
    /\ variant = "standalone"
    /\ budget > 0
    /\ thrown' = FALSE
    /\ UNCHANGED <<envVars, currentPdf, tasks, nextId>>
    /\ IF selectedElement = NULL
         THEN UNCHANGED <<canvas, nodes, selectedElement, budget>>
         ELSE LET element == selectedElement
                  d == deselectElement(nodes, selectedElement)
                  cv == [i \in 1..Len(canvas) |->
                            [canvas[i] EXCEPT !.children =
                                SelectSeq(@, LAMBDA h : h # element)]]
              IN  /\ canvas' = cv
                  /\ selectedElement' = d.selectedElement
                  /\ nodes' = Collect(d.nodes, cv, tasks, d.selectedElement)
                  /\ budget' = budget - 1

\* A handler that rewrites the selected element's dataset and leaves the rest.
EditSelected(update(_)) ==
    /\ variant = "standalone"
    /\ budget > 0
    /\ thrown' = FALSE
    /\ UNCHANGED <<envVars, canvas, selectedElement, currentPdf, tasks, nextId>>
    /\ IF selectedElement = NULL
         THEN UNCHANGED <<nodes, budget>>
         ELSE /\ nodes' = [nodes EXCEPT ![selectedElement] = update(@)]
              /\ budget' = budget - 1

RotationInput(input) == EditSelected(LAMBDA e : setRotation(e, input))

ScaleXInput(input) == EditSelected(LAMBDA e : setScaleX(e, input))

ScaleYInput(input) == EditSelected(LAMBDA e : setScaleY(e, input))

\* script.js:284-290.
LayerClick(direction) ==
    EditSelected(LAMBDA e : adjustLayer(e, IF direction = "forward" THEN 1 ELSE -1))

\* script.js:348-350.
toggleBinaryStyle(current, activeValue, defaultValue) ==
    IF current = activeValue THEN defaultValue ELSE activeValue

\* The click handler of a style button (script.js:267-282) on the selection.
toggleStyle(element, styleType) ==
    CASE styleType = "bold" ->
           [element EXCEPT !.fontWeight =
               toggleBinaryStyle(@, "700",
                   IF element.originalFontWeight = "" THEN "400"
                   ELSE element.originalFontWeight)]
      [] styleType = "italic" ->
           [element EXCEPT !.fontStyle =
               toggleBinaryStyle(@, "italic",
                   IF element.originalFontStyle = "" THEN "normal"
                   ELSE element.originalFontStyle)]
      [] styleType = "underline" ->
           [element EXCEPT !.textDecoration = toggleBinaryStyle(@, "underline", "none")]
      [] OTHER -> element

StyleButtons == {"bold", "italic", "underline"}

StyleClick(styleType) == EditSelected(LAMBDA e : toggleStyle(e, styleType))

FontSizeInput(input) == EditSelected(LAMBDA e : setFontSize(e, input))

LineHeightInput(input) == EditSelected(LAMBDA e : setLineHeight(e, input))

OpacityInput(input) == EditSelected(LAMBDA e : setOpacity(e, input))

\* DuplicateClick with a guard that returns when the clone's page is not found.
DuplicateClick_SilentDrop ==
    /\ variant = "standalone"
    /\ budget > 0
    /\ UNCHANGED <<envVars, currentPdf, tasks>>
    /\ IF selectedElement = NULL
         THEN /\ thrown' = FALSE
              /\ UNCHANGED <<canvas, nodes, selectedElement, nextId, budget>>
         ELSE LET clone == duplicateClone(nodes[selectedElement], nextId)
                  handle == nextId + 1
                  page == findPage(canvas, clone.pageIndex)
              IN  /\ nextId' = nextId + 1
                  /\ budget' = budget - 1
                  /\ IF page = 0
                       THEN \* no page: return, the clone is dropped
                            /\ thrown' = FALSE
                            /\ UNCHANGED <<canvas, nodes, selectedElement>>
                       ELSE LET cv == [canvas EXCEPT ![page].children = Append(@, handle)]
                                ns == Allocate(nodes, nextId,
                                               << initialiseEditableElement(clone) >>)
                                s == selectElement(ns, selectedElement, handle)
                            IN  /\ thrown' = FALSE
                                /\ canvas' = cv
                                /\ selectedElement' = s.selectedElement
                                /\ nodes' = Collect(s.nodes, cv, tasks, s.selectedElement)

\* script.js:315-326.
DuplicateClick ==
    /\ variant = "standalone"
    /\ budget > 0
    /\ UNCHANGED <<envVars, currentPdf, tasks>>
    /\ IF selectedElement = NULL
         THEN /\ thrown' = FALSE
              /\ UNCHANGED <<canvas, nodes, selectedElement, nextId, budget>>
         ELSE LET clone == duplicateClone(nodes[selectedElement], nextId)
                  handle == nextId + 1
                  page == findPage(canvas, clone.pageIndex)
              IN  /\ nextId' = nextId + 1
                  /\ budget' = budget - 1
                  /\ IF page = 0
                       THEN \* null.appendChild: TypeError, the clone is dropped
                            /\ thrown' = TRUE
                            /\ UNCHANGED <<canvas, nodes, selectedElement>>
                       ELSE LET cv == [canvas EXCEPT ![page].children = Append(@, handle)]
                                ns == Allocate(nodes, nextId,
                                               << initialiseEditableElement(clone) >>)
                                s == selectElement(ns, selectedElement, handle)
                            IN  /\ thrown' = FALSE
                                /\ canvas' = cv
                                /\ selectedElement' = s.selectedElement
                                /\ nodes' = Collect(s.nodes, cv, tasks, s.selectedElement)

\* The drag move listener of an attached element (script.js:683-697).
DragMove(element, delta) ==
    /\ variant = "standalone"
    /\ budget > 0
    /\ element \in Attached(canvas)
    /\ nodes' = [nodes EXCEPT ![element] = dragMove(@, delta[1], delta[2])]
    /\ budget' = budget - 1
    /\ thrown' = FALSE
    /\ UNCHANGED <<envVars, canvas, selectedElement, currentPdf, tasks, nextId>>

\* The resize move listener of an attached element (script.js:699-715).
ResizeMove(element, factor) ==
    /\ variant = "standalone"
    /\ budget > 0
    /\ element \in Attached(canvas)
    /\ nodes' = [nodes EXCEPT ![element] =
                    resizeMove(@, factor[1] * Max(1, @.width), factor[2] * Max(1, @.height))]
    /\ budget' = budget - 1
    /\ thrown' = FALSE
    /\ UNCHANGED <<envVars, canvas, selectedElement, currentPdf, tasks, nextId>>

\* click on a block, or focus of a block: script.js:180-183, 658.
SelectBlock(element) ==
    /\ variant = "standalone"
    /\ element \in Attached(canvas)
    /\ LET s == selectElement(nodes, selectedElement, element)
       IN  /\ selectedElement' = s.selectedElement
           /\ nodes' = Collect(s.nodes, canvas, tasks, s.selectedElement)
    /\ thrown' = FALSE
    /\ UNCHANGED <<envVars, canvas, currentPdf, tasks, nextId, budget>>

\* click on the canvas outside every block: script.js:184-186.
ClickCanvas ==
    /\ variant = "standalone"
    /\ LET d == deselectElement(nodes, selectedElement)
       IN  /\ selectedElement' = d.selectedElement
           /\ nodes' = Collect(d.nodes, canvas, tasks, d.selectedElement)
    /\ thrown' = FALSE
    /\ UNCHANGED <<envVars, canvas, currentPdf, tasks, nextId, budget>>

\* script.js:84-92.
ClearClick ==
    /\ variant = "standalone"
    /\ currentPdf' = NULL
    /\ canvas' = << >>
    /\ nodes' = Collect(nodes, << >>, tasks, selectedElement)
    /\ thrown' = FALSE
    /\ UNCHANGED <<envVars, selectedElement, tasks, nextId, budget>>

-----------------------------------------------------------------------------
(* ExportCoordinator of script.js: the exportPdfButton click handler *)

\* A run of the handler (script.js:117-178), suspended at the await of
\* html2canvas (line 148) for pages[index], or ended.
\*   pages: the .page elements found at line 136, in document order, each named
\*          by the load that built it and its page index;
\*   embedded: the pages added to pdfDocument so far (lines 158-168);
\*   pc: "capture" | "saved" | "failed";
\*   file: the file pdfDocument.save handed to the browser (line 172).
NoFile == [emitted |-> FALSE, pages |-> << >>]

newExportRun(cv) ==
    [pages |-> [i \in 1..Len(cv) |-> <<cv[i].load, cv[i].pageIndex>>],
     index |-> 1, embedded |-> << >>, pc |-> "capture", file |-> NoFile]

\* How the capture and embedding of one page can end: html2canvas resolves and
\* the image is embedded; html2canvas rejects; toDataURL, new jsPDF, addPage
\* or addImage throws.
CaptureOutcomes == {"embedded", "captureFails", "embedFails"}

\* click on #exportPdf: script.js:117-148, up to the first await.  libraries:
\* window.html2canvas and window.jspdf.jsPDF are both there.
ExportPdfClick(libraries) ==
    /\ variant = "standalone"
    /\ budget > 0
    /\ thrown' = FALSE
    /\ UNCHANGED <<appVars, canvas, currentPdf, tasks, nextId>>
    /\ IF Len(canvas) = 0 \/ ~libraries
         THEN UNCHANGED <<nodes, selectedElement, exportRuns, budget>>
         ELSE LET d == deselectElement(nodes, selectedElement)
              IN  /\ selectedElement' = d.selectedElement
                  /\ nodes' = Collect(d.nodes, canvas, tasks, d.selectedElement)
                  /\ exportRuns' = Append(exportRuns, newExportRun(canvas))
                  /\ budget' = budget - 1

\* CaptureSettled saving the pages embedded so far when a page fails.
CaptureSettled_SavesPartial(e, outcome) ==
    /\ variant = "standalone"
    /\ e \in DOMAIN exportRuns
    /\ exportRuns[e].pc = "capture"
    /\ LET run == exportRuns[e]
           embedded == Append(run.embedded, run.pages[run.index])
       IN  exportRuns' =
               IF outcome # "embedded"
                 THEN [exportRuns EXCEPT ![e].pc = "failed",
                                         ![e].file = [emitted |-> TRUE, pages |-> run.embedded]]
               ELSE IF run.index < Len(run.pages)
                 THEN [exportRuns EXCEPT ![e].embedded = embedded, ![e].index = @ + 1]
               ELSE [exportRuns EXCEPT ![e].embedded = embedded, ![e].pc = "saved",
                                       ![e].file = [emitted |-> TRUE, pages |-> embedded]]
    /\ thrown' = FALSE
    /\ UNCHANGED <<appVars, canvas, nodes, selectedElement, currentPdf, tasks, nextId, budget>>

\* html2canvas settles for pages[index]: script.js:148-177.  A rejection or an
\* exception of the embedding ends in the catch of line 174; after the last
\* page the document is saved (171-173).
CaptureSettled(e, outcome) ==
    /\ variant = "standalone"
    /\ e \in DOMAIN exportRuns
    /\ exportRuns[e].pc = "capture"
    /\ LET run == exportRuns[e]
           embedded == Append(run.embedded, run.pages[run.index])
       IN  exportRuns' =
               IF outcome # "embedded"
                 THEN [exportRuns EXCEPT ![e].pc = "failed"]
               ELSE IF run.index < Len(run.pages)
                 THEN [exportRuns EXCEPT ![e].embedded = embedded, ![e].index = @ + 1]
               ELSE [exportRuns EXCEPT ![e].embedded = embedded, ![e].pc = "saved",
                                       ![e].file = [emitted |-> TRUE, pages |-> embedded]]
    /\ thrown' = FALSE
    /\ UNCHANGED <<appVars, canvas, nodes, selectedElement, currentPdf, tasks, nextId, budget>>

-----------------------------------------------------------------------------
(* Document load of script.js: the pdfInput change handler and renderPdf *)

\* A run of the change handler (script.js:58-82) and of the renderPdf it starts
\* (script.js:362-403).  pc names the await the run is suspended at:
\*   "decode"  loadingTask.promise     (script.js:75)
\*   "getPage" pdf.getPage(pageNumber) (script.js:367)
\*   "render"  page.render(...).promise (script.js:392)
\*   "vector"  renderSvgVectorLayer    (script.js:395)
\*   "text"    renderTextLayer         (script.js:396)
\* "done": renderPdf returned; "failed": the run ended in a rejection.
\* pageElement: the blocks appended so far to the page being built.
\* overtook: the earlier runs that were extracting pages when the file was
\* picked (bookkeeping of the model, read by no handler).
Extracting == {"getPage", "render", "vector", "text"}

Finished == {"done", "failed"}

newTask(file, running) ==
    [file |-> file, pc |-> "decode", pageNumber |-> 0, pageElement |-> << >>,
     overtook |-> running]

Fails(task, phase) ==
    /\ task.file.failAt = phase
    /\ phase = "decode" \/ task.file.failPage = task.pageNumber

\* The change event of #pdfInput: script.js:58-73.
PdfInputChange(file) ==
    /\ variant = "standalone"
    /\ Len(tasks) < MaxLoads
    /\ budget > 0
    /\ tasks' = Append(tasks,
                       newTask(file, {t \in DOMAIN tasks : tasks[t].pc \in Extracting}))
    /\ budget' = budget - 1
    /\ thrown' = FALSE
    /\ UNCHANGED <<envVars, canvas, nodes, selectedElement, currentPdf, nextId>>

\* loadingTask.promise settles: script.js:74-81, and on success renderPdf runs
\* up to its first await (script.js:363-367).
DecodeSettled(t) ==
    /\ variant = "standalone"
    /\ t \in DOMAIN tasks
    /\ tasks[t].pc = "decode"
    /\ thrown' = FALSE
    /\ UNCHANGED <<envVars, selectedElement, nextId, budget>>
    /\ IF Fails(tasks[t], "decode")
         THEN /\ tasks' = [tasks EXCEPT ![t].pc = "failed"]
              /\ UNCHANGED <<canvas, nodes, currentPdf>>
         ELSE LET doc == tasks[t].file.doc
                  ts == [tasks EXCEPT ![t].pc = IF numPages(doc) >= 1 THEN "getPage" ELSE "done",
                                      ![t].pageNumber = 1]
              IN  /\ currentPdf' = doc
                  /\ canvas' = << >>
                  /\ tasks' = ts
                  /\ nodes' = Collect(nodes, << >>, ts, selectedElement)

\* GetPageSettled starting the page's extraction without waiting for
\* page.render to settle.
GetPageSettled_NoRenderAwait(t) ==
    /\ variant = "standalone"
    /\ t \in DOMAIN tasks
    /\ tasks[t].pc = "getPage"
    /\ tasks' = [tasks EXCEPT ![t].pc = IF Fails(tasks[t], "getPage") THEN "failed" ELSE "vector",
                              ![t].pageElement = << >>]
    /\ thrown' = Fails(tasks[t], "getPage")
    /\ UNCHANGED <<envVars, canvas, nodes, selectedElement, currentPdf, nextId, budget>>

\* pdf.getPage settles: script.js:367-392.
GetPageSettled(t) ==
    /\ variant = "standalone"
    /\ t \in DOMAIN tasks
    /\ tasks[t].pc = "getPage"
    /\ tasks' = [tasks EXCEPT ![t].pc = IF Fails(tasks[t], "getPage") THEN "failed" ELSE "render",
                              ![t].pageElement = << >>]
    /\ thrown' = Fails(tasks[t], "getPage")
    /\ UNCHANGED <<envVars, canvas, nodes, selectedElement, currentPdf, nextId, budget>>

\* page.render settles: script.js:392-395.
RenderSettled(t) ==
    /\ variant = "standalone"
    /\ t \in DOMAIN tasks
    /\ tasks[t].pc = "render"
    /\ tasks' = [tasks EXCEPT ![t].pc = IF Fails(tasks[t], "render") THEN "failed" ELSE "vector"]
    /\ thrown' = Fails(tasks[t], "render")
    /\ UNCHANGED <<envVars, canvas, nodes, selectedElement, currentPdf, nextId, budget>>

\* renderSvgVectorLayer settles: script.js:395.
VectorSettled(t) ==
    /\ variant = "standalone"
    /\ t \in DOMAIN tasks
    /\ tasks[t].pc = "vector"
    /\ LET task == tasks[t]
           doc == task.file.doc
           blocks == renderSvgVectorLayer(task.file, task.pageNumber, nextId)
       IN  /\ nodes' = Allocate(nodes, nextId, blocks)
           /\ nextId' = nextId + Len(blocks)
           /\ tasks' = [tasks EXCEPT ![t].pc = "text",
                                     ![t].pageElement = Handles(nextId, blocks)]
    /\ thrown' = FALSE
    /\ UNCHANGED <<envVars, canvas, selectedElement, currentPdf, budget>>

\* renderTextLayer settles and the page is attached: script.js:396-399, 512-655;
\* after the last page renderPdf returns (script.js:402).
TextSettled(t) ==
    /\ variant = "standalone"
    /\ t \in DOMAIN tasks
    /\ tasks[t].pc = "text"
    /\ UNCHANGED <<envVars, selectedElement, currentPdf, budget>>
    /\ LET task == tasks[t]
           doc == task.file.doc
       IN  IF Fails(task, "text")
             THEN LET ts == [tasks EXCEPT ![t].pc = "failed", ![t].pageElement = << >>]
                  IN  /\ tasks' = ts
                      /\ nodes' = Collect(nodes, canvas, ts, selectedElement)
                      /\ thrown' = TRUE
                      /\ UNCHANGED <<canvas, nextId>>
             ELSE LET blocks == textBlocks(task.file, task.pageNumber, textLayerApi, nextId,
                                           Len(task.pageElement))
                      wrapper == [doc |-> doc, load |-> t, pageIndex |-> task.pageNumber - 1,
                                  children |-> task.pageElement \o Handles(nextId, blocks)]
                      last == task.pageNumber >= numPages(doc)
                  IN  /\ nodes' = Allocate(nodes, nextId, blocks)
                      /\ nextId' = nextId + Len(blocks)
                      /\ canvas' = Append(canvas, wrapper)
                      /\ tasks' = [tasks EXCEPT ![t].pc = IF last THEN "done" ELSE "getPage",
                                                ![t].pageNumber = IF last THEN @ ELSE @ + 1,
                                                ![t].pageElement = << >>]
                      /\ thrown' = FALSE

-----------------------------------------------------------------------------
(* The server-backed editor: src/app/static/app.js *)

\* An element of a document the server answers with.  rectWidth, rectHeight:
\* the box the browser lays the text of a text element out in, as measured by
\* range.getBoundingClientRect() (app.js:301-303); 0 for an image.
ServerElement(id, type, order, x, y, width, height, fontSize, rectWidth, rectHeight) ==
    [id |-> id, type |-> type, order |-> order, x |-> x, y |-> y,
     width |-> width, height |-> height, fontSize |-> fontSize,
     rectWidth |-> rectWidth, rectHeight |-> rectHeight]

ServerPage(index, width, height, elements) ==
    [index |-> index, width |-> width, height |-> height, elements |-> elements]

\* state.document before any upload: null (app.js:2).
NoDocument == [present |-> FALSE, pages |-> << >>]

\* data.document of /api/upload for the files offered to the editor:
\*   1: one page, a text, an image, and an image wider than the page;
\*   2: two pages, the elements of the second listed against their order;
\*   3: a document without pages.
ServerDocument(d) ==
    CASE d = 1 ->
           [present |-> TRUE, pages |-> << ServerPage(0, 100, 80,
                           << ServerElement(1, "text", 0, 10, 10, 40, 16, 16, 40, 18),
                              ServerElement(2, "image", 1, 20, 20, 30, 30, 0, 0, 0),
                              ServerElement(3, "image", 2, 0, 40, 120, 20, 0, 0, 0) >>) >>]
      [] d = 2 ->
           [present |-> TRUE, pages |-> << ServerPage(0, 100, 80,
                           << ServerElement(4, "image", 0, 5, 5, 20, 20, 0, 0, 0) >>),
                         ServerPage(1, 100, 80,
                           << ServerElement(5, "image", 1, 50, 50, 20, 20, 0, 0, 0),
                              ServerElement(6, "text", 0, 0, 0, 30, 12, 12, 20, 10) >>) >>]
      [] OTHER -> [present |-> TRUE, pages |-> << >>]

ServerDocs == {1, 2, 3}

\* A file picked in #fileInput: the document the server builds from it, and
\* whether /api/upload answers 2xx.
ServerFiles == {[doc |-> d, ok |-> TRUE] : d \in ServerDocs} \cup {[doc |-> 1, ok |-> FALSE]}

\* Array.prototype.sort by order (stable): app.js:92 and 322-324.
RECURSIVE sortByOrder(_)
sortByOrder(elements) ==
    IF elements = << >> THEN << >>
    ELSE LET n == Len(elements)
             i == CHOOSE i \in 1..n :
                      \A j \in 1..n :
                          \/ elements[i].order < elements[j].order
                          \/ elements[i].order = elements[j].order /\ i <= j
         IN  << elements[i] >> \o
             sortByOrder(SubSeq(elements, 1, i - 1) \o SubSeq(elements, i + 1, n))

\* app.js:298-314, on the node's dataset.
updateTextMetrics(node) ==
    IF node.type # "text" THEN node
    ELSE [node EXCEPT !.width = Max(node.rectWidth, 32),
                      !.height = Max(node.rectHeight,
                                     IF node.fontSize = 0 THEN 16 ELSE node.fontSize)]

\* app.js:106-202: the node built for an element of a page.  updateTextMetrics
\* runs at line 138, before the node is appended to its wrapper (line 99): the
\* text has no layout box yet and the range's rectangle is 0 by 0.
renderElement(element, page) ==
    LET node == [id |-> element.id, type |-> element.type, pageIndex |-> page.index,
                 order |-> element.order, x |-> element.x, y |-> element.y,
                 width |-> element.width, height |-> element.height,
                 fontSize |-> element.fontSize, rectWidth |-> 0,
                 rectHeight |-> 0, selected |-> FALSE]
    IN  [updateTextMetrics(node) EXCEPT !.rectWidth = element.rectWidth,
                                        !.rectHeight = element.rectHeight]

\* app.js:76-104.  Returns the wrappers below #pages; the caller's state loses
\* its selection (app.js:78).
renderDocument(doc) ==
    IF ~doc.present THEN << >>
    ELSE [p \in 1..Len(doc.pages) |->
             LET page == doc.pages[p]
                 sorted == sortByOrder(page.elements)
             IN  [index |-> page.index, width |-> page.width, height |-> page.height,
                  children |-> [i \in 1..Len(sorted) |-> renderElement(sorted[i], page)]]]

\* The places <<wrapper, position>> of the element nodes below #pages.
Places(pc) == UNION {{<<p, i>> : i \in 1..Len(pc[p].children)} : p \in 1..Len(pc)}

NoPlace == <<0, 0>>

\* The first of a set of places in document order: what querySelector returns.
FirstPlace(places) ==
    IF places = {} THEN NoPlace
    ELSE CHOOSE a \in places :
             \A b \in places : a[1] < b[1] \/ (a[1] = b[1] /\ a[2] <= b[2])

NodeAt(pc, place) == pc[place[1]].children[place[2]]

\* app.js:219-229.  Returns the wrappers and the selected id afterwards.
appDeselectElement(pc) ==
    LET previous == FirstPlace({pl \in Places(pc) : NodeAt(pc, pl).selected})
    IN  [pagesContainer |->
             IF previous = NoPlace THEN pc
             ELSE [pc EXCEPT ![previous[1]].children[previous[2]].selected = FALSE],
         selectedElementId |-> NULL]

\* app.js:208-217, selectElement(node) for the node at a place.
appSelectElement(pc, selectedElementId, place) ==
    IF selectedElementId = NodeAt(pc, place).id
      THEN [pagesContainer |-> pc, selectedElementId |-> selectedElementId]
      ELSE LET d == appDeselectElement(pc)
           IN  [pagesContainer |->
                    [d.pagesContainer EXCEPT ![place[1]].children[place[2]].selected = TRUE],
                selectedElementId |-> NodeAt(pc, place).id]

\* app.js:338-341: the place of the first node carrying the selected id.
getSelectedNode(pc, selectedElementId) ==
    IF selectedElementId = NULL THEN NoPlace
    ELSE FirstPlace({pl \in Places(pc) : NodeAt(pc, pl).id = selectedElementId})

\* Array.prototype.splice twice (app.js:328-329): the element at index moved to nextIndex.
moveTo(elements, index, nextIndex) ==
    LET rest == SubSeq(elements, 1, index - 1) \o SubSeq(elements, index + 1, Len(elements))
    IN  SubSeq(rest, 1, nextIndex - 1) \o << elements[index] >>
          \o SubSeq(rest, nextIndex, Len(rest))

\* app.js:317-336 on the children of the selected node's wrapper; positions
\* count from 1 here and orders from 0 as in the code.  Returns the children
\* and whether the handler went on to markDirty.
reorderSelected(children, position, direction) ==
    LET elements == sortByOrder(children)
        node == children[position]
        index == CHOOSE k \in 1..Len(elements) : elements[k] = node
        nextIndex == Min(Max(index + direction, 1), Len(elements))
        moved == moveTo(elements, index, nextIndex)
    IN  IF index = nextIndex
          THEN [children |-> children, changed |-> FALSE]
          ELSE [children |-> [k \in 1..Len(moved) |-> [moved[k] EXCEPT !.order = k - 1]],
                changed |-> TRUE]

\* pointerMove clamping in the other order: to the far edge first, then to 0.
pointerMove_ClampsToZeroLast(node, wrapper, deltaX, deltaY) ==
    [node EXCEPT !.x = Max(0, Min(node.x + deltaX, wrapper.width - node.width)),
                 !.y = Max(0, Min(node.y + deltaY, wrapper.height - node.height))]

\* app.js:156-182: pointermove of a drag that started with the node at (x, y);
\* rect is the wrapper's box.
pointerMove(node, wrapper, deltaX, deltaY) ==
    [node EXCEPT !.x = Min(Max(0, node.x + deltaX), wrapper.width - node.width),
                 !.y = Min(Max(0, node.y + deltaY), wrapper.height - node.height)]

\* app.js:256-297 after the user typed input into one field of the inspector
\* form; the other fields hold what the handlers last wrote into them, the
\* node's own values.
handleInspectorInput(node, field, input) ==
    LET value(name, current) == IF field = name THEN input ELSE Num(current)
        x == value("x", node.x)
        y == value("y", node.y)
        width == value("width", node.width)
        height == value("height", node.height)
        fontSize == value("fontSize", node.fontSize)
        box == [node EXCEPT !.x = IF x.finite THEN x.value ELSE @,
                            !.y = IF y.finite THEN y.value ELSE @,
                            !.width = IF width.finite THEN width.value ELSE @,
                            !.height = IF height.finite THEN height.value ELSE @]
        measured == updateTextMetrics(box)
    IN  IF node.type # "text" THEN box
        ELSE IF fontSize.finite
               THEN [measured EXCEPT !.fontSize = fontSize.value,
                                     !.height = fontSize.value]
               ELSE measured

\* app.js:343-365: what collectPayload reads off the DOM.
collectPayload(pc) ==
    [p \in 1..Len(pc) |->
        [pc[p] EXCEPT !.children =
            [i \in 1..Len(pc[p].children) |-> [pc[p].children[i] EXCEPT !.selected = FALSE]]]]

\* What no handler of app.js writes.
scriptVars == <<variant, textLayerApi, canvas, nodes, selectedElement, currentPdf,
                tasks, nextId, exportRuns>>

\* Values typed into a numeric field of the inspector form, and pointer moves.
InspectorFields == {"x", "y", "width", "height", "fontSize"}

InspectorInputs == {NaN, Num(0), Num(25)}

PointerDeltas == {<<-50, 5>>, <<200, 100>>}

\* change of #fileInput: app.js:49-56, up to the fetch.
FileInputChange(file) ==
    /\ variant = "server"
    /\ budget > 0
    /\ requests' = Append(requests, [kind |-> "upload", file |-> file, payload |-> << >>])
    /\ budget' = budget - 1
    /\ thrown' = FALSE
    /\ UNCHANGED <<scriptVars, pagesContainer, state>>

\* The answer to an upload arrives: app.js:57-73.
UploadSettled(r) ==
    /\ variant = "server"
    /\ r \in DOMAIN requests
    /\ requests[r].kind = "upload"
    /\ requests' = SubSeq(requests, 1, r - 1) \o SubSeq(requests, r + 1, Len(requests))
    /\ IF requests[r].file.ok
         THEN LET doc == ServerDocument(requests[r].file.doc)
              IN  /\ pagesContainer' = renderDocument(doc)
                  /\ state' = [document |-> doc, selectedElementId |-> NULL, dirty |-> FALSE]
         ELSE UNCHANGED <<pagesContainer, state>>
    /\ thrown' = FALSE
    /\ UNCHANGED <<scriptVars, budget>>

\* click on an element node: app.js:196-199.
ClickElement(place) ==
    /\ variant = "server"
    /\ place \in Places(pagesContainer)
    /\ LET s == appSelectElement(pagesContainer, state.selectedElementId, place)
       IN  /\ pagesContainer' = s.pagesContainer
           /\ state' = [state EXCEPT !.selectedElementId = s.selectedElementId]
    /\ thrown' = FALSE
    /\ UNCHANGED <<scriptVars, requests, budget>>

\* click on #pages outside every element: app.js:204-206.
ClickPages ==
    /\ variant = "server"
    /\ LET d == appDeselectElement(pagesContainer)
       IN  /\ pagesContainer' = d.pagesContainer
           /\ state' = [state EXCEPT !.selectedElementId = d.selectedElementId]
    /\ thrown' = FALSE
    /\ UNCHANGED <<scriptVars, requests, budget>>

\* click on #bringForward (direction 1) or #sendBackward (-1): app.js:23-24, 317-336.
ReorderClick(direction) ==
    /\ variant = "server"
    /\ budget > 0
    /\ thrown' = FALSE
    /\ UNCHANGED <<scriptVars, requests>>
    /\ LET place == getSelectedNode(pagesContainer, state.selectedElementId)
       IN  IF place = NoPlace
             THEN UNCHANGED <<pagesContainer, state, budget>>
             ELSE LET done == reorderSelected(pagesContainer[place[1]].children,
                                              place[2], direction)
                  IN  /\ pagesContainer' =
                             [pagesContainer EXCEPT ![place[1]].children = done.children]
                      /\ state' = [state EXCEPT !.dirty = @ \/ done.changed]
                      /\ budget' = budget - 1

\* A drag of an element node: pointerdown on it, then a pointermove (app.js:146-182).
PointerMove(place, delta) ==
    /\ variant = "server"
    /\ budget > 0
    /\ place \in Places(pagesContainer)
    /\ pagesContainer' =
           [pagesContainer EXCEPT ![place[1]].children[place[2]] =
               pointerMove(@, pagesContainer[place[1]], delta[1], delta[2])]
    /\ state' = [state EXCEPT !.dirty = TRUE]
    /\ budget' = budget - 1
    /\ thrown' = FALSE
    /\ UNCHANGED <<scriptVars, requests>>

\* input / change of the inspector form, which exists while a node is
\* selected (app.js:231-254) and edits that node: app.js:256-297.
InspectorInput(field, input) ==
    /\ variant = "server"
    /\ budget > 0
    /\ state.selectedElementId # NULL
    /\ LET place == FirstPlace({pl \in Places(pagesContainer) :
                                   NodeAt(pagesContainer, pl).selected})
       IN  /\ place # NoPlace
           /\ pagesContainer' =
                  [pagesContainer EXCEPT ![place[1]].children[place[2]] =
                      handleInspectorInput(@, field, input)]
    /\ state' = [state EXCEPT !.dirty = TRUE]
    /\ budget' = budget - 1
    /\ thrown' = FALSE
    /\ UNCHANGED <<scriptVars, requests>>

\* click on #saveButton: app.js:367-374, up to the fetch.  The button is
\* enabled once a document is loaded (app.js:66).
SaveClick ==
    /\ variant = "server"
    /\ budget > 0
    /\ state.document.present
    /\ requests' = Append(requests, [kind |-> "save", file |-> [doc |-> 0, ok |-> TRUE],
                                     payload |-> collectPayload(pagesContainer)])
    /\ budget' = budget - 1
    /\ thrown' = FALSE
    /\ UNCHANGED <<scriptVars, pagesContainer, state>>

\* The answer to a save arrives, 2xx or not: app.js:375-386.
SaveSettled(r, ok) ==
    /\ variant = "server"
    /\ r \in DOMAIN requests
    /\ requests[r].kind = "save"
    /\ requests' = SubSeq(requests, 1, r - 1) \o SubSeq(requests, r + 1, Len(requests))
    /\ state' = IF ok THEN [state EXCEPT !.document = [present |-> TRUE, pages |-> requests[r].payload],
                                         !.dirty = FALSE]
                ELSE state
    /\ thrown' = FALSE
    /\ UNCHANGED <<scriptVars, pagesContainer, budget>>

-----------------------------------------------------------------------------
(* Initial state: the page as loaded, nothing imported yet *)

NoState == [document |-> NoDocument, selectedElementId |-> NULL, dirty |-> FALSE]

Init ==
    /\ variant \in {"standalone", "server"}
    /\ textLayerApi \in (IF variant = "standalone" THEN BOOLEAN ELSE {FALSE})
    /\ pagesContainer = << >>
    /\ state = NoState
    /\ requests = << >>
    /\ exportRuns = << >>
    /\ canvas = << >>
    /\ nodes = << >>
    /\ selectedElement = NULL
    /\ currentPdf = NULL
    /\ tasks = << >>
    /\ nextId = 0
    /\ thrown = FALSE
    /\ budget = MaxGestures

\* The standalone editor from page load on.
Next ==
    \/ \E file \in Files : PdfInputChange(file)
    \/ \E t \in DOMAIN tasks : DecodeSettled(t)
    \/ \E t \in DOMAIN tasks : GetPageSettled(t)
    \/ \E t \in DOMAIN tasks : RenderSettled(t)
    \/ \E t \in DOMAIN tasks : VectorSettled(t)
    \/ \E t \in DOMAIN tasks : TextSettled(t)
    \/ ClearClick
    \/ \E libraries \in BOOLEAN : ExportPdfClick(libraries)
    \/ \E e \in DOMAIN exportRuns, outcome \in CaptureOutcomes : CaptureSettled(e, outcome)
    \/ \E element \in DOMAIN nodes : SelectBlock(element)
    \/ ClickCanvas
    \/ \E input \in LoadArrowInputs : KeyArrow(input[1], input[2])
    \/ deleteSelection
    \/ \E input \in LoadRotationInputs : RotationInput(input)
    \/ \E input \in LoadScaleInputs : ScaleXInput(input)
    \/ \E input \in LoadScaleInputs : ScaleYInput(input)
    \/ \E direction \in {"forward", "backward"} : LayerClick(direction)
    \/ \E styleType \in StyleButtons : StyleClick(styleType)
    \/ \E input \in FontSizeInputs : FontSizeInput(input)
    \/ \E input \in LineHeightInputs : LineHeightInput(input)
    \/ \E input \in OpacityInputs : OpacityInput(input)
    \/ DuplicateClick
    \/ \E element \in DOMAIN nodes, delta \in DragDeltas : DragMove(element, delta)
    \/ \E element \in DOMAIN nodes, factor \in LoadResizeFactors : ResizeMove(element, factor)
    \/ \E file \in ServerFiles : FileInputChange(file)
    \/ \E r \in DOMAIN requests : UploadSettled(r)
    \/ \E place \in Places(pagesContainer) : ClickElement(place)
    \/ ClickPages
    \/ \E direction \in {1, -1} : ReorderClick(direction)
    \/ \E place \in Places(pagesContainer), delta \in PointerDeltas : PointerMove(place, delta)
    \/ \E field \in InspectorFields, input \in InspectorInputs : InspectorInput(field, input)
    \/ SaveClick
    \/ \E r \in DOMAIN requests, ok \in BOOLEAN : SaveSettled(r, ok)

Spec == Init /\ [][Next]_vars

-----------------------------------------------------------------------------
(* An editing session: a document has been imported, then the user edits *)

\* The scene renderPdf leaves behind for a file that loads, pages 1..numPages
\* in order (script.js:366-400), starting from an empty canvas.
RECURSIVE renderPages(_, _, _, _)
renderPages(file, useLayer, pageNumber, scene) ==
    IF pageNumber > numPages(file.doc) THEN scene
    ELSE LET vector == renderSvgVectorLayer(file, pageNumber, scene.nextId)
             issued == scene.nextId + Len(vector)
             text == textBlocks(file, pageNumber, useLayer, issued, Len(vector))
             wrapper == [doc |-> file.doc, load |-> 1, pageIndex |-> pageNumber - 1,
                         children |-> Handles(scene.nextId, vector) \o Handles(issued, text)]
         IN  renderPages(file, useLayer, pageNumber + 1,
                         [canvas |-> Append(scene.canvas, wrapper),
                          nodes |-> Allocate(Allocate(scene.nodes, scene.nextId, vector),
                                             issued, text),
                          nextId |-> issued + Len(text)])

EditFiles == {file \in Files : file.failAt = "none"}

\* The standalone editor after a file was loaded, nothing selected.
LoadedScene ==
    /\ variant = "standalone"
    /\ textLayerApi \in BOOLEAN
    /\ pagesContainer = << >>
    /\ state = NoState
    /\ requests = << >>
    /\ exportRuns = << >>
    /\ \E file \in EditFiles :
          LET scene == renderPages(file, textLayerApi, 1,
                                   [canvas |-> << >>, nodes |-> << >>, nextId |-> 0])
          IN  /\ canvas = scene.canvas
              /\ nodes = scene.nodes
              /\ nextId = scene.nextId
              /\ currentPdf = file.doc
              /\ tasks = << [file |-> file, pc |-> "done",
                            pageNumber |-> numPages(file.doc), pageElement |-> << >>,
                            overtook |-> {}] >>
    /\ selectedElement = NULL
    /\ thrown = FALSE

\* The server-backed editor after a document was uploaded and rendered.
UploadedScene ==
    /\ variant = "server"
    /\ textLayerApi = FALSE
    /\ canvas = << >>
    /\ nodes = << >>
    /\ selectedElement = NULL
    /\ currentPdf = NULL
    /\ tasks = << >>
    /\ nextId = 0
    /\ thrown = FALSE
    /\ \E d \in ServerDocs :
          /\ pagesContainer = renderDocument(ServerDocument(d))
          /\ state = [NoState EXCEPT !.document = ServerDocument(d)]
    /\ requests = << >>
    /\ exportRuns = << >>

InitEditStandalone == LoadedScene /\ budget = EditDepth

InitEditServer == UploadedScene /\ budget = EditDepth

InitEdit == InitEditStandalone \/ InitEditServer

NextEdit ==
    \/ ClearClick
    \/ \E element \in DOMAIN nodes : SelectBlock(element)
    \/ ClickCanvas
    \/ \E input \in EditArrowInputs : KeyArrow(input[1], input[2])
    \/ deleteSelection
    \/ \E input \in RotationInputs : RotationInput(input)
    \/ \E input \in ScaleInputs : ScaleXInput(input)
    \/ \E input \in ScaleInputs : ScaleYInput(input)
    \/ \E direction \in {"forward", "backward"} : LayerClick(direction)
    \/ \E styleType \in StyleButtons : StyleClick(styleType)
    \/ DuplicateClick
    \/ \E element \in DOMAIN nodes, delta \in DragDeltas : DragMove(element, delta)
    \/ \E element \in DOMAIN nodes, factor \in ResizeFactors : ResizeMove(element, factor)
    \/ \E place \in Places(pagesContainer) : ClickElement(place)
    \/ ClickPages
    \/ \E direction \in {1, -1} : ReorderClick(direction)
    \/ \E place \in Places(pagesContainer), delta \in PointerDeltas : PointerMove(place, delta)
    \/ \E field \in InspectorFields, input \in InspectorInputs : InspectorInput(field, input)
    \/ SaveClick
    \/ \E r \in DOMAIN requests, ok \in BOOLEAN : SaveSettled(r, ok)

SpecEdit == InitEdit /\ [][NextEdit]_vars

\* The state an editing session starts in is one the editor reaches by loading.
EditStartReached ==
    /\ Len(tasks) = 1
    /\ tasks[1].pc = "done"
    /\ tasks[1].file.doc = 1
    /\ selectedElement = NULL
    /\ budget = MaxGestures - 1
    /\ LET scene == renderPages(tasks[1].file, textLayerApi, 1,
                                [canvas |-> << >>, nodes |-> << >>, nextId |-> 0])
       IN  canvas = scene.canvas /\ nodes = scene.nodes /\ nextId = scene.nextId

-----------------------------------------------------------------------------
(* Every operation of the editors on an imported document, the property     *)
(* fields of the inspector included.                                        *)

InitOps == (LoadedScene \/ UploadedScene) /\ budget = OpsDepth

NextOps ==
    \/ NextEdit
    \/ \E input \in FontSizeInputs : FontSizeInput(input)
    \/ \E input \in LineHeightInputs : LineHeightInput(input)
    \/ \E input \in OpacityInputs : OpacityInput(input)

SpecOps == InitOps /\ [][NextOps]_vars

-----------------------------------------------------------------------------
(* A layering session: a document has been imported, then the user selects  *)
(* blocks and presses the layer buttons.                                    *)

InitLayer == (LoadedScene \/ UploadedScene) /\ budget = LayerDepth

NextLayer ==
    \/ \E element \in DOMAIN nodes : SelectBlock(element)
    \/ ClickCanvas
    \/ \E direction \in {"forward", "backward"} : LayerClick(direction)
    \/ \E place \in Places(pagesContainer) : ClickElement(place)
    \/ ClickPages
    \/ \E direction \in {1, -1} : ReorderClick(direction)

SpecLayer == InitLayer /\ [][NextLayer]_vars

-----------------------------------------------------------------------------
(* A loading session: the user picks files and presses Clear while the      *)
(* extractions run; nothing is edited.                                      *)

\* The files of a loading session: those of Files, a file whose first page
\* has a vector tree that cannot be built (getSVG rejects, script.js:414, 425),
\* and a one-page document with several shapes and text runs.
LoadFiles == Files \cup {File(1, "none", 0, {1}), File(3, "none", 0, {})}

InitLoad ==
    /\ variant = "standalone"
    /\ textLayerApi \in BOOLEAN
    /\ pagesContainer = << >>
    /\ state = NoState
    /\ requests = << >>
    /\ exportRuns = << >>
    /\ canvas = << >>
    /\ nodes = << >>
    /\ selectedElement = NULL
    /\ currentPdf = NULL
    /\ tasks = << >>
    /\ nextId = 0
    /\ thrown = FALSE
    /\ budget = LoadDepth

NextLoad ==
    \/ \E file \in LoadFiles : PdfInputChange(file)
    \/ \E t \in DOMAIN tasks : DecodeSettled(t)
    \/ \E t \in DOMAIN tasks : GetPageSettled(t)
    \/ \E t \in DOMAIN tasks : RenderSettled(t)
    \/ \E t \in DOMAIN tasks : VectorSettled(t)
    \/ \E t \in DOMAIN tasks : TextSettled(t)
    \/ ClearClick

SpecLoad == InitLoad /\ [][NextLoad]_vars

-----------------------------------------------------------------------------
(* An export session: a document has been imported; the user exports it,    *)
(* and selects, moves, duplicates and deletes blocks or clears the canvas   *)
(* while the captures run.                                                  *)

InitExport == LoadedScene /\ budget = ExportDepth

NextExport ==
    \/ \E libraries \in BOOLEAN : ExportPdfClick(libraries)
    \/ \E e \in DOMAIN exportRuns, outcome \in CaptureOutcomes : CaptureSettled(e, outcome)
    \/ ClearClick
    \/ \E element \in DOMAIN nodes : SelectBlock(element)
    \/ ClickCanvas
    \/ \E input \in LoadArrowInputs : KeyArrow(input[1], input[2])
    \/ deleteSelection
    \/ DuplicateClick

SpecExport == InitExport /\ [][NextExport]_vars

-----------------------------------------------------------------------------
(* TransformEngine on arbitrary inputs: one block with any base transform   *)
(* and any edit state, then one more rotate / scale / move gesture.         *)

ComposeAxes == {<<x, y>> : x \in -MaxCoord..MaxCoord, y \in -MaxCoord..MaxCoord}

ComposeTranslates == {<<0, 0>>, <<10, -20>>}

ComposeKinds == {"text", "vector"}

\* An element as the extractor builds it, then edited to the given edit state
\* by the inspector handlers.
composedElement(kind, xAxis, yAxis, translate, tx, ty, rotation, sx, sy) ==
    applyCompositeTransform(
        [newElement(createElementId(0), kind, 1, 0,
                    <<xAxis[1], xAxis[2], yAxis[1], yAxis[2], translate[1], translate[2]>>,
                    30, 16, 2, "400", "normal")
            EXCEPT !.translateX = tx, !.translateY = ty, !.rotation = rotation,
                   !.scaleX = sx, !.scaleY = sy, !.selected = TRUE])

InitCompose ==
    /\ variant = "standalone"
    /\ textLayerApi = FALSE
    /\ pagesContainer = << >>
    /\ state = NoState
    /\ requests = << >>
    /\ exportRuns = << >>
    /\ \E xAxis \in ComposeAxes, yAxis \in ComposeAxes, translate \in ComposeTranslates,
          kind \in ComposeKinds,
          tx \in {0, 12}, ty \in {0, -5}, rotation \in {0, 90, 180, 270},
          sx \in {1, -2}, sy \in {1, 3} :
          nodes = << composedElement(kind, xAxis, yAxis, translate, tx, ty, rotation, sx, sy) >>
    /\ canvas = << [doc |-> 1, load |-> 1, pageIndex |-> 0, children |-> <<1>>] >>
    /\ selectedElement = 1
    /\ currentPdf = 1
    /\ tasks = << >>
    /\ nextId = 1
    /\ thrown = FALSE
    /\ budget = 1

NextCompose ==
    \/ \E input \in RotationInputs : RotationInput(input)
    \/ \E input \in {Num(2), Num(1)} : ScaleXInput(input)
    \/ \E input \in {Num(-1), Num(1)} : ScaleYInput(input)
    \/ \E input \in {<<"ArrowLeft", TRUE>>, <<"ArrowDown", FALSE>>} : KeyArrow(input[1], input[2])
    \/ \E element \in DOMAIN nodes, delta \in DragDeltas : DragMove(element, delta)
    \/ \E element \in DOMAIN nodes, factor \in ResizeFactors : ResizeMove(element, factor)

SpecCompose == InitCompose /\ [][NextCompose]_vars

-----------------------------------------------------------------------------
(* Properties *)

IsIdentityEdit(element) ==
    /\ element.translateX = 0
    /\ element.translateY = 0
    /\ element.rotation = 0
    /\ element.scaleX = 1
    /\ element.scaleY = 1

BaseMatrix(element) ==
    << element.baseXAxis[1], element.baseXAxis[2],
       element.baseYAxis[1], element.baseYAxis[2],
       element.baseTranslate[1], element.baseTranslate[2] >>

\* C1: for every block, text or vector, with any base transform, the composite
\* matrix of the base transform and the identity edit state (translate 0,0;
\* rotation 0; scale 1,1) equals the base transform exactly.
C1_IdentityCompose ==
    \A h \in DOMAIN nodes :
        IsIdentityEdit(nodes[h]) => nodes[h].computedMatrix = BaseMatrix(nodes[h])

\* C1 witness: a handler has just recomputed the composite of a block with a
\* skewed base transform whose edit state is the identity.
C1_Witness ==
    /\ budget = 0
    /\ \E h \in DOMAIN nodes :
          /\ IsIdentityEdit(nodes[h])
          /\ nodes[h].baseXAxis = <<1, -1>>
          /\ nodes[h].baseYAxis = <<-1, 0>>
          /\ nodes[h].baseTranslate = <<10, -20>>

\* A quarter turn of a vector, and the rotation by a whole number of them.
QuarterTurn(v) == << 0 - v[2], v[1] >>

RECURSIVE Turn(_, _)
Turn(quarters, v) == IF quarters = 0 THEN v ELSE Turn(quarters - 1, QuarterTurn(v))

Rotated(rotationDegrees, v) == Turn((rotationDegrees % 360) \div 90, v)

ComposedAsSpecified(element) ==
    LET m == element.computedMatrix
        x == Rotated(element.rotation, element.baseXAxis)
        y == Rotated(element.rotation, element.baseYAxis)
    IN  /\ <<m[1], m[2]>> = << element.scaleX * x[1], element.scaleX * x[2] >>
        /\ <<m[3], m[4]>> = << element.scaleY * y[1], element.scaleY * y[2] >>
        /\ <<m[5], m[6]>> = << element.baseTranslate[1] + element.translateX,
                               element.baseTranslate[2] + element.translateY >>

\* A step that leaves the block's translateX / translateY as they were leaves
\* the translate component of its composite matrix as it was.
TranslateKept(h) ==
    (/\ nodes'[h].translateX = nodes[h].translateX
     /\ nodes'[h].translateY = nodes[h].translateY)
    => /\ nodes'[h].computedMatrix[5] = nodes[h].computedMatrix[5]
       /\ nodes'[h].computedMatrix[6] = nodes[h].computedMatrix[6]

\* C2: for every base transform and edit state the composite matrix has X axis
\* scaleX * R(rotationDegrees) * baseXAxis, Y axis scaleY * R(rotationDegrees) *
\* baseYAxis and translate baseTranslate + (translateX, translateY); a step
\* that changes only rotation, scaleX or scaleY leaves the translate component.
C2_ComposeFormula ==
    /\ [](\A h \in DOMAIN nodes : ComposedAsSpecified(nodes[h]))
    /\ [][\A h \in (DOMAIN nodes) \cap (DOMAIN nodes') : TranslateKept(h)]_vars

\* C2 witness: a rotate or scale gesture has acted on a block that is rotated,
\* scaled unevenly, moved, and has a skewed base transform.
C2_Witness ==
    /\ budget = 0
    /\ \E h \in DOMAIN nodes :
          /\ nodes[h].rotation = 270
          /\ nodes[h].scaleX = -2
          /\ nodes[h].scaleY = 3
          /\ nodes[h].translateX = 12
          /\ nodes[h].translateY = -5
          /\ nodes[h].baseXAxis = <<1, 1>>
          /\ nodes[h].baseYAxis = <<-1, 0>>
          /\ nodes[h].baseTranslate = <<10, -20>>

\* The page wrapper of the canvas that holds element h (0: h is detached).
PageOf(cv, h) ==
    LET hits == {i \in 1..Len(cv) : h \in Range(cv[i].children)}
    IN  IF hits = {} THEN 0 ELSE CHOOSE i \in hits : TRUE

ZOrders(cv, ns, page) == {ns[h].zIndex : h \in Range(cv[page].children)}

\* C3 : on every page of the canvas the z-order values of its N
\* blocks are exactly 1..N, pairwise distinct.
C3_DenseZOrder ==
    \A page \in 1..Len(canvas) :
        LET blocks == Range(canvas[page].children)
        IN  /\ ZOrders(canvas, nodes, page) = 1..Cardinality(blocks)
            /\ \A g, h \in blocks : g # h => nodes[g].zIndex # nodes[h].zIndex

\* The standalone editor: the marked element is the one selectedElement holds.
SingleSelection ==
    /\ \A h \in DOMAIN nodes : nodes[h].selected <=> h = selectedElement
    /\ selectedElement # NULL => selectedElement \in DOMAIN nodes

\* The server-backed editor: at most one node carries the class selected, and
\* it is the node whose id state.selectedElementId holds.
AppSingleSelection ==
    LET marked == {pl \in Places(pagesContainer) : NodeAt(pagesContainer, pl).selected}
    IN  /\ Cardinality(marked) <= 1
        /\ \A pl \in marked : NodeAt(pagesContainer, pl).id = state.selectedElementId
        /\ state.selectedElementId # NULL => marked # {}

\* A click on block B leaves B marked and held and every other block unmarked.
SelectionMoves ==
    /\ \A b \in Attached(canvas) :
           SelectBlock(b) =>
               /\ selectedElement' = b
               /\ nodes'[b].selected
               /\ \A a \in (DOMAIN nodes') \ {b} : ~nodes'[a].selected
    /\ \A b \in Places(pagesContainer) :
           ClickElement(b) =>
               /\ state'.selectedElementId = NodeAt(pagesContainer, b).id
               /\ NodeAt(pagesContainer', b).selected
               /\ \A a \in Places(pagesContainer') \ {b} : ~NodeAt(pagesContainer', a).selected

\* C4: in both editors at most one block is marked selected and it is the
\* block held as the current selection; a click on block B while A is selected
\* leaves B marked and held, and A unmarked, in one step.
C4_SingleSelection ==
    /\ [](SingleSelection /\ AppSingleSelection)
    /\ [][SelectionMoves]_vars

\* C4 witness: block B is selected right after block A was: B is marked and
\* held, A is still on the page and unmarked, and both were edited while selected.
C4_Witness ==
    \E a, b \in Attached(canvas) :
        /\ a # b
        /\ selectedElement = b
        /\ nodes[b].selected
        /\ ~nodes[a].selected
        /\ nodes[a].rotation = 90
        /\ nodes[b].rotation = 180

\* What the duplicate button is claimed to do to the selected block B.
DuplicateEffect ==
    LET b == selectedElement
        added == Attached(canvas') \ Attached(canvas)
    IN  /\ Cardinality(added) = 1
        /\ Attached(canvas) \subseteq Attached(canvas')
        /\ \A c \in added :
              /\ \A h \in DOMAIN nodes : nodes'[c].elementId # nodes[h].elementId
              /\ nodes'[c].pageIndex = nodes[b].pageIndex
              /\ BaseMatrix(nodes'[c]) = BaseMatrix(nodes[b])
              /\ nodes'[c].rotation = nodes[b].rotation
              /\ nodes'[c].scaleX = nodes[b].scaleX
              /\ nodes'[c].scaleY = nodes[b].scaleY
              /\ nodes'[c].translateX = nodes[b].translateX + 12
              /\ nodes'[c].translateY = nodes[b].translateY + 12
        /\ b \in DOMAIN nodes' =>
              /\ nodes'[b].elementId = nodes[b].elementId
              /\ BaseMatrix(nodes'[b]) = BaseMatrix(nodes[b])
              /\ nodes'[b].translateX = nodes[b].translateX
              /\ nodes'[b].translateY = nodes[b].translateY
              /\ nodes'[b].rotation = nodes[b].rotation
              /\ nodes'[b].scaleX = nodes[b].scaleX
              /\ nodes'[b].scaleY = nodes[b].scaleY
              /\ nodes'[b].zIndex = nodes[b].zIndex

\* C5 : duplicating the selected block adds exactly one block with
\* a fresh id, B's page, base transform, rotation and scale, and B's translate
\* plus 12 on each axis; B keeps its id, base transform, edit state and z-order.
C5_DuplicateAddsClone ==
    [][(selectedElement # NULL /\ DuplicateClick) => DuplicateEffect]_vars

\* The same for a selected block that is on the canvas.
DuplicateOfAttached ==
    [][(selectedElement \in Attached(canvas) /\ DuplicateClick) => DuplicateEffect]_vars

\* C6 : right after a duplication the clone's z-order is greater
\* than that of every other block on its page.
C6_CloneOnTop ==
    [][(selectedElement # NULL /\ DuplicateClick) =>
          \A c \in Attached(canvas') \ Attached(canvas) :
              LET page == PageOf(canvas', c)
              IN  \A h \in Range(canvas'[page].children) \ {c} :
                      nodes'[c].zIndex > nodes'[h].zIndex]_vars

\* C7: no step changes the base transform (X axis, Y axis, translate) of a
\* block that exists before and after it.
C7_BaseTransformFixed ==
    [][\A h \in (DOMAIN nodes) \cap (DOMAIN nodes') :
          BaseMatrix(nodes'[h]) = BaseMatrix(nodes[h])]_vars

\* C7 witness: the edit budget is used up on a block that was dragged and
\* resized, with its composite moved away from its base transform.
C7_Witness ==
    /\ budget = 0
    /\ \E h \in Attached(canvas) :
          /\ nodes[h].translateX = 3
          /\ nodes[h].translateY = -2
          /\ nodes[h].scaleX = 2
          /\ nodes[h].computedMatrix # BaseMatrix(nodes[h])

\* No gesture has changed the scene the loads left: every gesture was a file
\* pick and Clear was not pressed after the last renderPdf started.
Undisturbed == budget = MaxGestures - Len(tasks) /\ currentPdf # NULL

\* C8 : when a file is picked while an earlier extraction is still
\* running, then once both have finished the canvas holds exactly the pages of
\* the later document, in order, and none of the earlier one.
C8_StaleLoadDiscarded ==
    \A t \in DOMAIN tasks :
        (/\ tasks[t].overtook # {}
         /\ tasks[t].pc = "done"
         /\ \A u \in DOMAIN tasks : tasks[u].pc \in Finished
         /\ t = Len(tasks)
         /\ Undisturbed)
        => /\ Len(canvas) = numPages(tasks[t].file.doc)
           /\ \A i \in 1..Len(canvas) :
                 /\ canvas[i].load = t
                 /\ canvas[i].pageIndex = i - 1

TaskStep(t) ==
    \/ DecodeSettled(t)
    \/ GetPageSettled(t)
    \/ RenderSettled(t)
    \/ VectorSettled(t)
    \/ TextSettled(t)

SceneOf(cv, ns, sel) == << cv, [h \in Attached(cv) |-> ns[h]], sel >>

\* A document loaded before load t is open: the canvas holds pages, all of
\* them appended by earlier loads.
PreviouslyOpen(t) ==
    /\ canvas # <<>>
    /\ \A i \in 1..Len(canvas) : canvas[i].load < t

\* C9: no step of a load that fails (decode, page fetch or page render)
\* changes the pages, blocks, z-orders, edit states or selection of the
\* document that was open before it.
C9_FailedLoadKeepsScene ==
    [][\A t \in DOMAIN tasks :
          (tasks[t].file.failAt # "none" /\ PreviouslyOpen(t) /\ TaskStep(t)) =>
              SceneOf(canvas', nodes', selectedElement')
                  = SceneOf(canvas, nodes, selectedElement)]_vars

\* Position of a block in its page's z-order: the number of blocks below it.
Rank(cv, ns, page, h) ==
    Cardinality({g \in Range(cv[page].children) : ns[g].zIndex < ns[h].zIndex})

\* C10 : a reorder at the page bound (forward on the top block,
\* backward on the bottom block) changes no z-order on the page; any other
\* reorder moves the block by exactly one position.
ReorderClamped(direction) ==
    LET b == selectedElement
        page == PageOf(canvas, b)
        zs == ZOrders(canvas, nodes, page)
        top == \A z \in zs : z <= nodes[b].zIndex
        bottom == \A z \in zs : z >= nodes[b].zIndex
        atBound == IF direction = "forward" THEN top ELSE bottom
    IN  IF atBound
          THEN \A h \in Range(canvas[page].children) : nodes'[h].zIndex = nodes[h].zIndex
          ELSE Rank(canvas', nodes', page, b)
                  = Rank(canvas, nodes, page, b) + (IF direction = "forward" THEN 1 ELSE -1)

C10_ReorderClamped ==
    [][\A direction \in {"forward", "backward"} :
          (selectedElement \in Attached(canvas) /\ LayerClick(direction))
              => ReorderClamped(direction)]_vars

\* The standalone editor: the backward and then the forward layer button on
\* the selected block, when it is a top block of a page of two or more blocks.
LayerRoundTrip ==
    LET b == selectedElement
        page == PageOf(canvas, b)
        blocks == Range(canvas[page].children)
        after == adjustLayer(adjustLayer(nodes[b], -1), 1)
    IN  (/\ b \in Attached(canvas)
         /\ Cardinality(blocks) >= 2
         /\ \A h \in blocks : nodes[h].zIndex <= nodes[b].zIndex)
            => after.zIndex = nodes[b].zIndex

\* The order each element id of a wrapper's children carries.
OrderOf(children) == {<<children[k].id, children[k].order>> : k \in 1..Len(children)}

PositionOf(children, id) == CHOOSE k \in 1..Len(children) : children[k].id = id

\* The server-backed editor: send backward and then bring forward on the
\* selected node, when it is the top node of a wrapper of two or more nodes.
AppRoundTrip ==
    LET place == getSelectedNode(pagesContainer, state.selectedElementId)
        children == pagesContainer[place[1]].children
        node == children[place[2]]
        back == reorderSelected(children, place[2], -1).children
        forth == reorderSelected(back, PositionOf(back, node.id), 1).children
    IN  (/\ place # NoPlace
         /\ Len(children) >= 2
         /\ \A k \in 1..Len(children) : children[k].order <= node.order)
            => OrderOf(forth) = OrderOf(children)

\* C11: on a page with at least two blocks, reordering the top block backward
\* once and then forward once leaves every block of the page with the z-order
\* value it had before.
C11_ReorderRoundTrip == LayerRoundTrip /\ AppRoundTrip

\* C12: deleting while block B is selected takes exactly B off its page, leaves
\* every other block as it was, and leaves no selection: nothing is held and
\* no block is marked selected.
C12_DeleteRemovesSelected ==
    [][(selectedElement # NULL /\ deleteSelection) =>
          LET b == selectedElement
          IN  /\ Len(canvas') = Len(canvas)
              /\ \A p \in 1..Len(canvas) :
                     canvas'[p].children = SelectSeq(canvas[p].children, LAMBDA h : h # b)
              /\ \A h \in Attached(canvas') : nodes'[h] = nodes[h]
              /\ selectedElement' = NULL
              /\ \A h \in DOMAIN nodes' : ~nodes'[h].selected]_vars

\* C12 witness: a block of a loaded page has been deleted: its handle is gone,
\* the pages are still there with other blocks, and nothing is selected.
C12_Witness ==
    /\ variant = "standalone"
    /\ canvas # << >>
    /\ Attached(canvas) # {}
    /\ \E h \in 1..nextId : h \notin DOMAIN nodes
    /\ selectedElement = NULL
    /\ \A h \in DOMAIN nodes : ~nodes[h].selected

\* Nothing is selected in either editor.
NoSelection == selectedElement = NULL /\ state.selectedElementId = NULL

\* A step of an EditController operation: nudge, delete, duplicate, reorder,
\* rotate, scale, property edit, style toggle.
EditOperation ==
    \/ \E input \in ArrowInputs : KeyArrow(input[1], input[2])
    \/ deleteSelection
    \/ DuplicateClick
    \/ \E direction \in {"forward", "backward"} : LayerClick(direction)
    \/ \E direction \in {1, -1} : ReorderClick(direction)
    \/ \E input \in RotationInputs : RotationInput(input)
    \/ \E input \in ScaleInputs : ScaleXInput(input) \/ ScaleYInput(input)
    \/ \E input \in FontSizeInputs : FontSizeInput(input)
    \/ \E input \in LineHeightInputs : LineHeightInput(input)
    \/ \E input \in OpacityInputs : OpacityInput(input)
    \/ \E styleType \in StyleButtons : StyleClick(styleType)

\* C13: with nothing selected, every EditController operation leaves every
\* block, every z-order and the selection as they were and raises no error.
C13_NoSelectionNoOp ==
    [][(NoSelection /\ EditOperation) =>
          /\ UNCHANGED <<canvas, nodes, selectedElement, pagesContainer, state>>
          /\ thrown' = FALSE]_vars

\* C13 witness: a document with blocks is open, nothing is selected, and the
\* delete, duplicate and layer operations can be taken and leave the state as
\* it is.
C13_Witness ==
    /\ NoSelection
    /\ Attached(canvas) # {}
    /\ ENABLED (deleteSelection /\ UNCHANGED vars)
    /\ ENABLED (DuplicateClick /\ UNCHANGED vars)
    /\ ENABLED (LayerClick("forward") /\ UNCHANGED vars)

\* The composite of the opposite order: each base axis times its scale first,
\* the scaled axes turned by the rotation afterwards.
ScaleThenRotate(element) ==
    LET cos == CosDeg(element.rotation)
        sin == SinDeg(element.rotation)
        xAxis == rotateAxis(scaleAxis(element.baseXAxis, element.scaleX), cos, sin)
        yAxis == rotateAxis(scaleAxis(element.baseYAxis, element.scaleY), cos, sin)
    IN  << xAxis[1], xAxis[2], yAxis[1], yAxis[2],
           element.baseTranslate[1] + element.translateX,
           element.baseTranslate[2] + element.translateY >>

\* C14 as stated: with scaleX = 2 and scaleY = 1 the composite of rotating
\* then scaling equals the composite of scaling then rotating only when the
\* rotation is 0 or 180 degrees.
C14_OrderMatters ==
    \A h \in DOMAIN nodes :
        (nodes[h].scaleX = 2 /\ nodes[h].scaleY = 1) =>
            ((nodes[h].computedMatrix = ScaleThenRotate(nodes[h]))
                <=> nodes[h].rotation \in {0, 180})

\* C14 amended: the engine scales each axis vector by its own factor, which
\* commutes with turning the vector: for every block, rotation and scale the
\* composite of rotating then scaling equals that of scaling then rotating.
C14_OrdersAgree ==
    \A h \in DOMAIN nodes : nodes[h].computedMatrix = ScaleThenRotate(nodes[h])

\* C14 witness: a block with skewed base axes rotated by 90 degrees after its
\* X scale was set to 2 with the Y scale at 1.
C14_Witness ==
    \E h \in DOMAIN nodes :
        /\ budget = 0
        /\ nodes[h].rotation = 90
        /\ nodes[h].scaleX = 2
        /\ nodes[h].scaleY = 1
        /\ nodes[h].baseXAxis = <<1, 1>>
        /\ nodes[h].baseYAxis = <<0, 1>>
        /\ nodes[h].computedMatrix = <<-2, 2, -1, 0,
                                       nodes[h].baseTranslate[1] + nodes[h].translateX,
                                       nodes[h].baseTranslate[2] + nodes[h].translateY>>

\* The edit state and base transform of a block.
Placement(element) ==
    << element.rotation, element.scaleX, element.scaleY,
       element.translateX, element.translateY, BaseMatrix(element) >>

\* C15: a value that parses to no finite number, entered for rotation, scaleX
\* or scaleY, leaves the selected block's rotation, scales, translate and base
\* transform as they were.
C15_MalformedInputIgnored ==
    [][(/\ selectedElement # NULL
        /\ \/ RotationInput(NaN)
           \/ ScaleXInput(NaN)
           \/ ScaleYInput(NaN))
          => Placement(nodes'[selectedElement]) = Placement(nodes[selectedElement])]_vars

\* C16: no block ever has a scale of 0: neither an inspector input nor a
\* resize gesture sets scaleX or scaleY to 0.
C16_ScaleNeverZero ==
    \A h \in DOMAIN nodes : nodes[h].scaleX # 0 /\ nodes[h].scaleY # 0

\* The inspector's scale fields alone keep the scale away from 0.
ScaleInputRejectsZero ==
    [][(selectedElement # NULL /\ (ScaleXInput(Num(0)) \/ ScaleYInput(Num(0))))
          => nodes' = nodes]_vars

\* The style fields of a block are as the extractor wrote them.
FreshStyle(element) ==
    /\ element.fontWeight = element.originalFontWeight
    /\ element.fontStyle = element.originalFontStyle
    /\ element.textDecoration = ""

StyleOf(element) == << element.fontWeight, element.fontStyle, element.textDecoration >>

\* C17: toggling bold, italic or underline twice in succession on a freshly
\* extracted block returns the style field to its extracted value.
C17_ToggleTwiceRestores ==
    \A h \in Attached(canvas) : \A styleType \in StyleButtons :
        FreshStyle(nodes[h]) =>
            StyleOf(toggleStyle(toggleStyle(nodes[h], styleType), styleType))
                = StyleOf(nodes[h])

\* Bold and italic on a text block do return to the extracted value.
TextWeightRestored ==
    \A h \in Attached(canvas) : \A styleType \in {"bold", "italic"} :
        (FreshStyle(nodes[h]) /\ nodes[h].kind = "text") =>
            StyleOf(toggleStyle(toggleStyle(nodes[h], styleType), styleType))
                = StyleOf(nodes[h])

\* The move a nudge is to make: the step along the key's axis, with its sign.
NudgeDelta(key, shiftKey) ==
    LET step == IF shiftKey THEN 5 ELSE 1
    IN  CASE key = "ArrowLeft" -> << 0 - step, 0 >>
          [] key = "ArrowRight" -> << step, 0 >>
          [] key = "ArrowUp" -> << 0, 0 - step >>
          [] key = "ArrowDown" -> << 0, step >>

\* C18: an arrow key moves the selected block by exactly 1, or by exactly 5
\* with the modifier held, along the key's axis only; the block's other axis,
\* rotation, scale and base transform stay, and no other block changes.
C18_NudgeStep ==
    [][\A input \in ArrowInputs :
          (selectedElement # NULL /\ KeyArrow(input[1], input[2])) =>
              LET b == selectedElement
                  delta == NudgeDelta(input[1], input[2])
              IN  /\ nodes'[b].translateX = nodes[b].translateX + delta[1]
                  /\ nodes'[b].translateY = nodes[b].translateY + delta[2]
                  /\ nodes'[b].rotation = nodes[b].rotation
                  /\ nodes'[b].scaleX = nodes[b].scaleX
                  /\ nodes'[b].scaleY = nodes[b].scaleY
                  /\ BaseMatrix(nodes'[b]) = BaseMatrix(nodes[b])
                  /\ DOMAIN nodes' = DOMAIN nodes
                  /\ \A h \in (DOMAIN nodes) \ {b} : nodes'[h] = nodes[h]
                  /\ selectedElement' = b]_vars

\* C18 witness: the selected block was nudged right with the modifier and up
\* without it, next to a block that was not touched.
C18_Witness ==
    /\ selectedElement \in Attached(canvas)
    /\ nodes[selectedElement].translateX = 5
    /\ nodes[selectedElement].translateY = -1
    /\ nodes[selectedElement].computedMatrix[5] = nodes[selectedElement].baseTranslate[1] + 5
    /\ \E h \in Attached(canvas) \ {selectedElement} : IsIdentityEdit(nodes[h])

\* The node the inspector form of the server-backed editor edits.
FormNode ==
    NodeAt(pagesContainer,
           FirstPlace({pl \in Places(pagesContainer) : NodeAt(pagesContainer, pl).selected}))

FormNodeAfter ==
    NodeAt(pagesContainer',
           FirstPlace({pl \in Places(pagesContainer) : NodeAt(pagesContainer, pl).selected}))

FieldOf(node, field) ==
    CASE field = "x" -> node.x
      [] field = "y" -> node.y
      [] field = "width" -> node.width
      [] field = "height" -> node.height
      [] field = "fontSize" -> node.fontSize

\* The standalone editor: a value that is no finite number leaves font size,
\* line height and opacity of the selected block as they were.
StyleInputRejected ==
    /\ (selectedElement # NULL /\ FontSizeInput(NaN))
           => nodes'[selectedElement].fontSize = nodes[selectedElement].fontSize
    /\ (selectedElement # NULL /\ LineHeightInput(NaN))
           => nodes'[selectedElement].lineHeight = nodes[selectedElement].lineHeight
    /\ \A input \in {EmptyText, OtherText} :
           (selectedElement # NULL /\ OpacityInput(input))
               => nodes'[selectedElement].opacity = nodes[selectedElement].opacity

\* The server-backed editor: a value that is no number, typed into a field of
\* the inspector form, leaves that property of the selected node as it was.
FormInputRejected ==
    \A field \in InspectorFields :
        InspectorInput(field, NaN) => FieldOf(FormNodeAfter, field) = FieldOf(FormNode, field)

\* C19: a non-finite value entered for a numeric style or geometry property
\* (font size, line height, opacity; x, y, width, height, font size) is
\* rejected and the property keeps its previous value.
C19_NonFiniteRejected == [][StyleInputRejected /\ FormInputRejected]_vars

\* The two editors taken apart.
C19_StandaloneOnly == [][StyleInputRejected]_vars

C19_ServerOnly == [][FormInputRejected]_vars

\* The blocks a step creates.
Created == (DOMAIN nodes') \ (DOMAIN nodes)

\* C20 as stated: every block has the identity edit state when it is created,
\* by extraction or by duplication.
C20_CreatedWithIdentity ==
    /\ \A h \in DOMAIN nodes : IsIdentityEdit(nodes[h])
    /\ [][\A c \in Created : IsIdentityEdit(nodes'[c])]_vars

\* C20 amended: a block created by text or vector extraction has the identity
\* edit state; a block created by duplication has the rotation and scale of
\* its original and the original's translate plus 12 on both axes.
C20_ExtractedWithIdentity ==
    /\ \A h \in DOMAIN nodes : IsIdentityEdit(nodes[h])
    /\ [][\A c \in Created :
              IF selectedElement # NULL /\ DuplicateClick
                THEN /\ nodes'[c].rotation = nodes[selectedElement].rotation
                     /\ nodes'[c].scaleX = nodes[selectedElement].scaleX
                     /\ nodes'[c].scaleY = nodes[selectedElement].scaleY
                     /\ nodes'[c].translateX = nodes[selectedElement].translateX + 12
                     /\ nodes'[c].translateY = nodes[selectedElement].translateY + 12
                ELSE IsIdentityEdit(nodes'[c])]_vars

\* C20 witness: a block that was rotated by 90 degrees has been duplicated; the
\* clone is selected, rotated like its original and 12 away from it.
C20_Witness ==
    \E b \in Attached(canvas) :
        /\ selectedElement \in Attached(canvas) \ {b}
        /\ nodes[b].rotation = 90
        /\ nodes[b].translateX = 0
        /\ nodes[selectedElement].rotation = 90
        /\ nodes[selectedElement].translateX = 12
        /\ nodes[selectedElement].translateY = 12
        /\ BaseMatrix(nodes[selectedElement]) = BaseMatrix(nodes[b])
        /\ nodes[selectedElement].elementId # nodes[b].elementId

\* The order in which one run of renderPdf passes its awaits: the document,
\* then for each page the page object, its raster, its vector blocks and its
\* text blocks.
PipelineOrder ==
    { <<"decode", "getPage">>, <<"decode", "done">>, <<"decode", "failed">>,
      <<"getPage", "render">>, <<"getPage", "failed">>,
      <<"render", "vector">>, <<"render", "failed">>,
      <<"vector", "text">>,
      <<"text", "getPage">>, <<"text", "done">>, <<"text", "failed">> }

\* One step of load t, seen from outside: the next await in order; the page
\* number grows by one, and only when all extraction of the page is done; the
\* page's blocks are created only after its raster is complete, and its
\* wrapper is attached only when its text extraction completes.
PageAtATime(t) ==
    LET before == tasks[t]
        after == tasks'[t]
        pageIndex == before.pageNumber - 1
        mine == {c \in Created : c \in Range(after.pageElement)
                                  \/ (Len(canvas') > Len(canvas)
                                      /\ canvas'[Len(canvas')].load = t
                                      /\ c \in Range(canvas'[Len(canvas')].children))}
    IN  /\ after.pc # before.pc => <<before.pc, after.pc>> \in PipelineOrder
        /\ after.pageNumber # before.pageNumber =>
               /\ after.pageNumber = before.pageNumber + 1
               /\ \/ before.pc = "decode" /\ before.pageNumber = 0
                  \/ before.pc = "text" /\ after.pc = "getPage"
        /\ mine # {} =>
               /\ before.pc \in {"vector", "text"}
               /\ after.pc # before.pc
               /\ \A c \in mine : nodes'[c].pageIndex = pageIndex
               /\ before.pc = "vector" => \A c \in mine : nodes'[c].kind = "vector"
               /\ before.pc = "text" => \A c \in mine : nodes'[c].kind = "text"
        /\ (Len(canvas') > Len(canvas) /\ canvas'[Len(canvas')].load = t) =>
               /\ before.pc = "text"
               /\ after.pc \in {"getPage", "done"}
               /\ canvas'[Len(canvas')].pageIndex = pageIndex

\* The pages a load has attached are in increasing index order, and all of
\* them lie before the page the load is working on.
PagesInOrder ==
    \A t \in DOMAIN tasks :
        LET mine == {i \in 1..Len(canvas) : canvas[i].load = t}
        IN  /\ \A i, j \in mine : i < j => canvas[i].pageIndex < canvas[j].pageIndex
            /\ \A i \in mine :
                   IF tasks[t].pc = "done"
                     THEN canvas[i].pageIndex + 1 <= tasks[t].pageNumber
                     ELSE canvas[i].pageIndex + 1 < tasks[t].pageNumber

\* C21: within one document load the pages are processed one at a time in
\* increasing index order: a page's rasterization completes before its vector
\* and text extraction begin, and all of its extraction completes before any
\* step of the next page starts.
C21_PagesOneAtATime ==
    /\ []PagesInOrder
    /\ [][\A t \in DOMAIN tasks : PageAtATime(t)]_vars

\* C21 witness: a load has rasterized its second page and is about to extract
\* it, with its first page attached, vector and text blocks included.
C21_Witness ==
    \E t \in DOMAIN tasks :
        /\ tasks[t].pc = "vector"
        /\ tasks[t].pageNumber = 2
        /\ \E i \in 1..Len(canvas) :
              /\ canvas[i].load = t
              /\ canvas[i].pageIndex = 0
              /\ \E g, h \in Range(canvas[i].children) :
                    nodes[g].kind = "vector" /\ nodes[h].kind = "text"

\* The pages of the canvas in document order, as an export run names them.
CanvasPages(cv) == [i \in 1..Len(cv) |-> <<cv[i].load, cv[i].pageIndex>>]

\* An export run has embedded a leading part of its pages, in their order; it
\* has emitted no file while it captures and none when it failed; a file it
\* emitted holds every one of its pages, in their order.
AllOrNothing(run) ==
    /\ Len(run.embedded) <= Len(run.pages)
    /\ run.embedded = SubSeq(run.pages, 1, Len(run.embedded))
    /\ run.pc = "capture" => Len(run.embedded) = run.index - 1 /\ ~run.file.emitted
    /\ run.pc = "failed" => ~run.file.emitted
    /\ run.file.emitted =>
           /\ run.pc = "saved"
           /\ run.embedded = run.pages
           /\ run.file.pages = run.pages

\* A page that fails ends the run without a file, a run that ended stays as it
\* is, and a new run takes the pages of the canvas in their order.
ExportStep ==
    /\ \A e \in DOMAIN exportRuns :
           /\ \A outcome \in {"captureFails", "embedFails"} :
                  CaptureSettled(e, outcome) =>
                      /\ exportRuns'[e].pc = "failed"
                      /\ ~exportRuns'[e].file.emitted
           /\ exportRuns[e].pc # "capture" => exportRuns'[e] = exportRuns[e]
           /\ exportRuns'[e].pages = exportRuns[e].pages
    /\ \A e \in (DOMAIN exportRuns') \ (DOMAIN exportRuns) :
           /\ exportRuns'[e].pages = CanvasPages(canvas)
           /\ exportRuns'[e].embedded = << >>
           /\ ~exportRuns'[e].file.emitted

ExportIndexOrder ==
    \A e \in DOMAIN exportRuns :
        \A i, j \in 1..Len(exportRuns[e].pages) :
            i < j => exportRuns[e].pages[i][2] < exportRuns[e].pages[j][2]

\* The blocks actual are the blocks expected, one by one and in the same
\* order, apart from their ids (fresh random values) and with z-order values
\* lower by shift.
ExtractedAs(actual, expected, shift) ==
    /\ Len(actual) = Len(expected)
    /\ \A k \in 1..Len(actual) :
           /\ [actual[k] EXCEPT !.elementId = 0, !.zIndex = 0]
                  = [expected[k] EXCEPT !.elementId = 0, !.zIndex = 0]
           /\ actual[k].zIndex = expected[k].zIndex - shift

\* The page of wrapper i holds what a load without any vector failure builds
\* for it; when its own vector tree failed it holds the text blocks alone,
\* stacked directly above the background.
DegradedPage(i) ==
    LET wrapper == canvas[i]
        file == tasks[wrapper.load].file
        pageNumber == wrapper.pageIndex + 1
        intact == [file EXCEPT !.svgFails = {}]
        vectors == renderSvgVectorLayer(intact, pageNumber, 0)
        texts == textBlocks(intact, pageNumber, textLayerApi, 0, Len(vectors))
        actual == [k \in 1..Len(wrapper.children) |-> nodes[wrapper.children[k]]]
    IN  IF pageNumber \in file.svgFails
          THEN /\ \A k \in 1..Len(actual) : actual[k].kind # "vector"
               /\ ExtractedAs(actual, texts, Len(vectors))
          ELSE ExtractedAs(actual, vectors \o texts, 0)

\* C23: when the vector tree of a page cannot be built the page has no vector
\* blocks, its text extraction runs and builds the text blocks it builds
\* otherwise, and the pages after it are extracted as without the failure.
C23_VectorFailureIsPageScoped ==
    /\ [](\A i \in 1..Len(canvas) : DegradedPage(i))
    /\ [][\A t \in DOMAIN tasks :
              (tasks[t].pc = "vector" /\ VectorSettled(t)) =>
                  /\ tasks'[t].pc = "text"
                  /\ tasks[t].pageNumber \in tasks[t].file.svgFails =>
                         tasks'[t].pageElement = << >>]_vars

\* C23 witness: a two-page document whose first page has a shape and whose
\* vector tree failed on that page has been loaded: page 1 holds its text block
\* and no vector block, page 2 follows it.
C23_Witness ==
    \E t \in DOMAIN tasks :
        /\ tasks[t].pc = "done"
        /\ tasks[t].file.svgFails = {1}
        /\ renderSvgVectorLayer([tasks[t].file EXCEPT !.svgFails = {}], 1, 0) # << >>
        /\ \E i, j \in 1..Len(canvas) :
              /\ i < j
              /\ canvas[i].load = t /\ canvas[i].pageIndex = 0
              /\ canvas[j].load = t /\ canvas[j].pageIndex = 1
              /\ Len(canvas[i].children) = 1
              /\ nodes[canvas[i].children[1]].kind = "text"
              /\ canvas[j].children # << >>

\* The top-level shape nodes of a page that are to get a block: not the defs
\* node, with a bounding box that can be computed and is not empty.
ShapeNodes(doc, pageNumber) ==
    SelectSeq(SvgChildren(doc, pageNumber),
              LAMBDA node : /\ node.tag # "defs"
                            /\ node.bbox.ok
                            /\ node.bbox.width # 0
                            /\ node.bbox.height # 0)

\* The blocks are the blocks of the shape nodes, one for each and in their
\* order, each with identity base axes, its box's origin as base translate
\* and its box's size as size.
BlocksOfShapes(blocks, shapes) ==
    /\ Len(blocks) = Len(shapes)
    /\ \A k \in 1..Len(blocks) :
           /\ blocks[k].kind = "vector"
           /\ blocks[k].baseXAxis = <<1, 0>>
           /\ blocks[k].baseYAxis = <<0, 1>>
           /\ blocks[k].baseTranslate = << shapes[k].bbox.x, shapes[k].bbox.y >>
           /\ blocks[k].width = shapes[k].bbox.width
           /\ blocks[k].height = shapes[k].bbox.height

\* The vector blocks among the elements with the given handles, in order.
VectorBlocks(handles) ==
    LET kept == SelectSeq(handles, LAMBDA h : nodes[h].kind = "vector")
    IN  [k \in 1..Len(kept) |-> nodes[kept[k]]]

\* C24: vector extraction creates exactly one block for each top-level shape
\* node that is not the defs node and has a computable bounding box of
\* non-zero width and height, and none for any other node; the block has
\* identity base axes, the box's origin as base translate and the box's
\* (width, height) as local size.
C24_OneBlockPerShape ==
    /\ \A t \in DOMAIN tasks :
           (tasks[t].pc = "text" /\ tasks[t].pageNumber \notin tasks[t].file.svgFails) =>
               BlocksOfShapes(VectorBlocks(tasks[t].pageElement),
                              ShapeNodes(tasks[t].file.doc, tasks[t].pageNumber))
    /\ \A i \in 1..Len(canvas) :
           (canvas[i].pageIndex + 1) \notin tasks[canvas[i].load].file.svgFails =>
               BlocksOfShapes(VectorBlocks(canvas[i].children),
                              ShapeNodes(canvas[i].doc, canvas[i].pageIndex + 1))

\* C24 witness: the vector blocks of a page with a defs node, two shapes, a
\* shape with an empty box and a shape without a box have just been built: two
\* blocks, the first with base translate (10, 20) and size (30, 40).
C24_Witness ==
    \E t \in DOMAIN tasks :
        /\ tasks[t].pc = "text"
        /\ Len(SvgChildren(tasks[t].file.doc, tasks[t].pageNumber)) = 5
        /\ Len(tasks[t].pageElement) = 2
        /\ nodes[tasks[t].pageElement[1]].baseTranslate = <<10, 20>>
        /\ nodes[tasks[t].pageElement[1]].width = 30
        /\ nodes[tasks[t].pageElement[1]].height = 40
        /\ nodes[tasks[t].pageElement[1]].computedMatrix = <<1, 0, 0, 1, 10, 20>>

\* The text blocks among the elements with the given handles, in order.
TextBlocks(handles) ==
    LET kept == SelectSeq(handles, LAMBDA h : nodes[h].kind = "text")
    IN  [k \in 1..Len(kept) |-> nodes[kept[k]]]

\* The text blocks of the attached pages, each with the run it was built from.
RunsAndBlocks ==
    UNION { LET items == TextItems(canvas[i].doc, canvas[i].pageIndex + 1)
                blocks == TextBlocks(canvas[i].children)
            IN  IF Len(blocks) # Len(items) THEN {}
                ELSE { [item |-> items[k], block |-> blocks[k],
                        viewport |-> viewportTransform(canvas[i].doc, canvas[i].pageIndex + 1)] :
                       k \in 1..Len(items) }
          : i \in 1..Len(canvas) }

\* The base transform of the block is the viewport transform times the run's
\* placement matrix.
BaseIsProduct(rb) == BaseMatrix(rb.block) = UtilTransform(rb.viewport, rb.item.transform)

\* The font pixel height of the block is the length of its base Y axis.
FontHeightIsYAxisLength(rb) ==
    /\ rb.block.fontSize = << Hypot(rb.block.baseYAxis[1], rb.block.baseYAxis[2]) >>
    /\ rb.block.height = Hypot(rb.block.baseYAxis[1], rb.block.baseYAxis[2])

\* C25: for every extracted text run the block's base transform is the matrix
\* product of the page's viewport transform and the run's placement matrix,
\* and the block's font pixel height is the Euclidean length of the base
\* transform's Y axis (16 for placement [12,0,0,-12,e,f] under 96/72).
C25_TextBaseIsProduct ==
    \A rb \in RunsAndBlocks : BaseIsProduct(rb) /\ FontHeightIsYAxisLength(rb)

\* The fallback text path alone builds the base transform as that product.
FallbackBaseIsProduct ==
    ~textLayerApi => \A rb \in RunsAndBlocks : BaseIsProduct(rb)

\* On both text paths the font height is the length of the base Y axis.
FontHeightFromBase == \A rb \in RunsAndBlocks : FontHeightIsYAxisLength(rb)

\* A run with placement [12, 0, 0, -12, 51, 699] has been extracted on the
\* fallback path: its base transform is the product and its height is 16.
FallbackExample ==
    /\ ~textLayerApi
    /\ \E rb \in RunsAndBlocks :
          /\ rb.item.transform = <<12, 0, 0, -12, 51, 699>>
          /\ BaseMatrix(rb.block) = <<16, 0, 0, 16, 68, 28>>
          /\ rb.block.fontSize = <<16>>

\* The z-order values of the page a step has just attached grow strictly along
\* the order in which its blocks were produced (vector blocks in node order,
\* then text blocks in run order), so they are pairwise distinct.
AttachedInZOrder ==
    Len(canvas') > Len(canvas) =>
        LET children == canvas'[Len(canvas')].children
        IN  \A j, k \in 1..Len(children) :
                j < k => nodes'[children[j]].zIndex < nodes'[children[k]].zIndex

\* C26: immediately after a page has been extracted the z-order values of its
\* blocks are pairwise distinct and strictly increasing in the order the
\* blocks were produced, on the text-layer path and on the fallback text path.
C26_ZOrderIncreasing == [][AttachedInZOrder]_vars

\* The text-layer path alone.
LayerPathZOrderIncreasing == [][textLayerApi => AttachedInZOrder]_vars

\* The standalone editor: a layer button pressed on the selected block b, not
\* at the extreme of its page in that direction, exchanges the z-order of b
\* with that of the block next to it in that direction, and of no other block.
LayerSwap(direction) ==
    LET b == selectedElement
        page == PageOf(canvas, b)
        blocks == Range(canvas[page].children)
        beyond == IF direction = "forward"
                    THEN {h \in blocks : nodes[h].zIndex > nodes[b].zIndex}
                    ELSE {h \in blocks : nodes[h].zIndex < nodes[b].zIndex}
        between(n) == {h \in blocks :
                          /\ Min(nodes[b].zIndex, nodes[n].zIndex) < nodes[h].zIndex
                          /\ nodes[h].zIndex < Max(nodes[b].zIndex, nodes[n].zIndex)}
    IN  beyond # {} =>
            \E n \in beyond :
                /\ between(n) = {}
                /\ nodes'[b].zIndex = nodes[n].zIndex
                /\ nodes'[n].zIndex = nodes[b].zIndex
                /\ \A h \in blocks \ {b, n} : nodes'[h].zIndex = nodes[h].zIndex

\* The server-backed editor: the same for the orders of the nodes of the
\* selected node's wrapper.
AppSwap(direction) ==
    LET place == getSelectedNode(pagesContainer, state.selectedElementId)
        children == pagesContainer[place[1]].children
        after == pagesContainer'[place[1]].children
        b == children[place[2]].id
        order(cs, id) == cs[PositionOf(cs, id)].order
        ids == {children[k].id : k \in 1..Len(children)}
        beyond == IF direction = 1
                    THEN {n \in ids : order(children, n) > order(children, b)}
                    ELSE {n \in ids : order(children, n) < order(children, b)}
        between(n) == {h \in ids :
                          /\ Min(order(children, b), order(children, n)) < order(children, h)
                          /\ order(children, h) < Max(order(children, b), order(children, n))}
    IN  (place # NoPlace /\ beyond # {}) =>
            \E n \in beyond :
                /\ between(n) = {}
                /\ order(after, b) = order(children, n)
                /\ order(after, n) = order(children, b)
                /\ \A h \in ids \ {b, n} : order(after, h) = order(children, h)

\* C27: a reorder that is not at a page extreme swaps the selected block's
\* z-order with that of its adjacent neighbour on the same page: exactly those
\* two blocks change z-order, they exchange values, and the multiset of
\* z-order values on the page stays the same.
C27_ReorderSwaps ==
    [][/\ \A direction \in {"forward", "backward"} :
             (selectedElement \in Attached(canvas) /\ LayerClick(direction))
                 => LayerSwap(direction)
       /\ \A direction \in {1, -1} :
             (state.selectedElementId # NULL /\ ReorderClick(direction))
                 => AppSwap(direction)]_vars

\* The server-backed editor alone.
AppReorderSwaps ==
    [][\A direction \in {1, -1} :
          (state.selectedElementId # NULL /\ ReorderClick(direction))
              => AppSwap(direction)]_vars

\* The id, page, base transform, edit state and style of a block.
Kept(element) ==
    << element.elementId, element.pageIndex, BaseMatrix(element),
       element.translateX, element.translateY, element.rotation,
       element.scaleX, element.scaleY,
       element.fontWeight, element.fontStyle, element.textDecoration,
       element.fontSize, element.lineHeight, element.opacity >>

\* A keyboard or property-panel operation of the standalone editor: nudge,
\* rotate, scale, property edit, style toggle, duplicate, delete.
PanelOperation ==
    \/ \E input \in ArrowInputs : KeyArrow(input[1], input[2])
    \/ \E input \in RotationInputs : RotationInput(input)
    \/ \E input \in ScaleInputs : ScaleXInput(input) \/ ScaleYInput(input)
    \/ \E input \in FontSizeInputs : FontSizeInput(input)
    \/ \E input \in LineHeightInputs : LineHeightInput(input)
    \/ \E input \in OpacityInputs : OpacityInput(input)
    \/ \E styleType \in StyleButtons : StyleClick(styleType)
    \/ DuplicateClick
    \/ deleteSelection

\* The blocks of the scene other than S are there afterwards as they were;
\* duplicate adds at most one block, delete takes S away, nothing else comes
\* or goes.
OthersKept ==
    LET S == selectedElement
        before == Attached(canvas)
        after == Attached(canvas')
    IN  /\ \A h \in before \ {S} :
               /\ h \in after
               /\ PageOf(canvas', h) = PageOf(canvas, h)
               /\ Kept(nodes'[h]) = Kept(nodes[h])
        /\ IF DuplicateClick
             THEN before \subseteq after /\ Cardinality(after \ before) <= 1
             ELSE IF deleteSelection
               THEN after = before \ {S}
               ELSE after = before

\* The server-backed editor: an input of the inspector form leaves every node
\* but the selected one as it was.
AppOthersKept ==
    \A field \in InspectorFields, input \in InspectorInputs :
        InspectorInput(field, input) =>
            /\ Places(pagesContainer') = Places(pagesContainer)
            /\ \A pl \in Places(pagesContainer) :
                   ~NodeAt(pagesContainer, pl).selected =>
                       NodeAt(pagesContainer', pl) = NodeAt(pagesContainer, pl)

\* C28: a keyboard or property-panel operation (nudge, rotate, scale, property
\* edit, style toggle, duplicate, delete) performed while block S is selected
\* leaves the id, page, base transform, edit state and style of every other
\* block as they were; the only block added is the clone of a duplicate and
\* the only block removed is S on delete.
C28_OtherBlocksUntouched ==
    [][/\ (selectedElement # NULL /\ PanelOperation) => OthersKept
       /\ AppOthersKept]_vars

\* C28 witness: the opacity of the selected block was set in the property
\* panel, next to a block of the same page whose style is as extracted.
C28_Witness ==
    /\ selectedElement \in Attached(canvas)
    /\ budget = 0
    /\ nodes[selectedElement].opacity = <<50>>
    /\ \E h \in Range(canvas[PageOf(canvas, selectedElement)].children) \ {selectedElement} :
          /\ nodes[h].opacity = << >>
          /\ IsIdentityEdit(nodes[h])

\* C29: after every operation that completes (extraction, nudge, drag, resize,
\* rotate, scale, duplicate) the stored composite matrix of every block is the
\* composition of its base transform and its current edit state: no operation
\* leaves an edit state field changed and the composite as it was.
C29_CompositeFollowsEdit ==
    \A h \in DOMAIN nodes :
        /\ ComposedAsSpecified(nodes[h])
        /\ nodes[h].computedMatrix = compositeMatrix(nodes[h])

\* C29 witness: a block was turned by 180 degrees and dragged by (3, -2), and
\* its stored composite has the turned axes and the moved translate.
C29_Witness ==
    /\ budget = 0
    /\ \E h \in Attached(canvas) :
          /\ nodes[h].rotation = 180
          /\ nodes[h].translateX = 3
          /\ nodes[h].translateY = -2
          /\ nodes[h].baseXAxis # <<0, 0>>
          /\ nodes[h].computedMatrix =
                 << 0 - nodes[h].baseXAxis[1], 0 - nodes[h].baseXAxis[2],
                    0 - nodes[h].baseYAxis[1], 0 - nodes[h].baseYAxis[2],
                    nodes[h].baseTranslate[1] + 3, nodes[h].baseTranslate[2] - 2 >>

\* The standalone editor: the selection is none or a block of the canvas.
SelectionPresent == selectedElement = NULL \/ selectedElement \in Attached(canvas)

\* The server-backed editor: the selected id is none or that of a node below
\* #pages.
AppSelectionPresent ==
    \/ state.selectedElementId = NULL
    \/ \E pl \in Places(pagesContainer) :
           NodeAt(pagesContainer, pl).id = state.selectedElementId

\* C30: in every reachable state the current selection is none or a block
\* that is present in the scene: clearing the canvas or loading a new document
\* resets the selection, so no later operation acts on a destroyed block.
C30_SelectionPresent == SelectionPresent /\ AppSelectionPresent

-----------------------------------------------------------------------------
(* Clear while an extraction is running *)

\* Clear was pressed after the last document was decoded and no file has been
\* picked since: currentPdf is null (script.js:85; only line 76 sets it again)
\* and every load that was started has been decoded, so each of them was
\* started before Clear was pressed.
ClearedAndNoNewLoad ==
    /\ currentPdf = NULL
    /\ \A t \in DOMAIN tasks :
          tasks[t].pc # "decode" /\ tasks[t].file.failAt # "decode"

\* An extraction is in progress: a renderPdf run is suspended at one of its
\* awaits.
ExtractionInProgress == \E t \in DOMAIN tasks : tasks[t].pc \in Extracting

\* C31: pressing Clear leaves the canvas without pages and blocks, and
\* from then on, until a new file is picked, the canvas stays without pages even
\* when an extraction was in progress at the moment Clear was pressed.
C31_ClearedStaysEmpty ==
    /\ [](ClearedAndNoNewLoad => canvas = << >>)
    /\ [][ClearClick => canvas' = << >> /\ Attached(canvas') = {}]_vars

\* The part of C31 that the code keeps: a cleared canvas stays empty
\* as long as no extraction is in progress.
ClearedStaysEmptyWhenIdle ==
    [][(ClearedAndNoNewLoad /\ canvas = << >> /\ ~ExtractionInProgress) =>
          (canvas' = << >> \/ Len(tasks') > Len(tasks))]_vars

\* Clear was pressed during an extraction and the extraction has since
\* appended its page to the cleared canvas.
ClearedThenAppended ==
    /\ ClearedAndNoNewLoad
    /\ canvas # << >>
    /\ \A i \in 1..Len(canvas) : tasks[canvas[i].load].pc \in Finished

-----------------------------------------------------------------------------
(* The dirty flag of the server-backed editor *)

\* The document the server last acknowledged (state.document: the answer to the
\* upload, app.js:64, or to a save, app.js:380) holds every edit made so far:
\* what collectPayload reads off the page now is what that save sent, or, when
\* nothing was saved yet, what renderDocument built from the upload.
EditsAcknowledged ==
    \/ collectPayload(pagesContainer) = state.document.pages
    \/ \E d \in ServerDocs :
          /\ state.document = ServerDocument(d)
          /\ collectPayload(pagesContainer)
                 = collectPayload(renderDocument(ServerDocument(d)))

\* A clean flag on a loaded document means that every edit is acknowledged.
CleanMeansSaved == (state.document.present /\ ~state.dirty) => EditsAcknowledged

\* The answer to save r arrives with 2xx while the page holds an edit made
\* after the save was sent: the flag is true afterwards.
EditDuringSaveStaysDirty ==
    \A r \in DOMAIN requests :
        (/\ SaveSettled(r, TRUE)
         /\ requests[r].payload # collectPayload(pagesContainer))
        => state'.dirty

\* The answer to save r is a failure: the flag is what it was.
FailedSaveKeepsFlag ==
    \A r \in DOMAIN requests : SaveSettled(r, FALSE) => state'.dirty = state.dirty

\* C32: in the server-backed editor a false dirty flag on a loaded
\* document means that every edit made so far is in a save the server has
\* acknowledged; an edit made while a save is in flight leaves the flag true
\* when that save's answer arrives, and a failed save never clears the flag.
C32_DirtyFlagSound ==
    /\ []CleanMeansSaved
    /\ [][EditDuringSaveStaysDirty /\ FailedSaveKeepsFlag]_vars

\* The part of C32 about failed saves, which the code keeps.
C32_FailedSaveKeepsFlag == [][FailedSaveKeepsFlag]_vars

\* A save answered with 2xx while the page is as the save sent it clears the
\* flag, with every edit acknowledged.
C32_SaveWithoutLaterEdit ==
    [][\A r \in DOMAIN requests :
          (/\ SaveSettled(r, TRUE)
           /\ requests[r].payload = collectPayload(pagesContainer))
          => (~state'.dirty /\ EditsAcknowledged')]_vars

-----------------------------------------------------------------------------
(* Drag moves of the server-backed editor *)

\* The node lies within the box of its page wrapper.
InPage(node, wrapper) ==
    /\ 0 <= node.x
    /\ node.x + node.width <= wrapper.width
    /\ 0 <= node.y
    /\ node.y + node.height <= wrapper.height

\* What the clamp of app.js:171-172 gives: the far edges are never passed; the
\* near edges are kept by an element that fits the page, and an element wider
\* (taller) than the page ends with its far edge on the page's far edge.
ClampedToPage(node, wrapper) ==
    /\ node.x + node.width <= wrapper.width
    /\ node.y + node.height <= wrapper.height
    /\ IF node.width <= wrapper.width THEN 0 <= node.x
       ELSE node.x = wrapper.width - node.width
    /\ IF node.height <= wrapper.height THEN 0 <= node.y
       ELSE node.y = wrapper.height - node.height

\* The original wording of C33: after every drag move the element lies
\* within its page, 0 <= x, x + w <= W, 0 <= y and y + h <= H, whatever the
\* element's size.
C33_DragStaysInPage ==
    [][\A place \in Places(pagesContainer), delta \in PointerDeltas :
          PointerMove(place, delta) =>
              InPage(NodeAt(pagesContainer', place), pagesContainer'[place[1]])]_vars

\* C33, amended: after every drag move x + w <= W and y + h <= H; 0 <= x
\* holds when the element is no wider than the page and 0 <= y when it is no
\* taller; an element wider (taller) than the page is left at x = W - w
\* (y = H - h), below 0.
C33_DragClampedToPage ==
    [][\A place \in Places(pagesContainer), delta \in PointerDeltas :
          PointerMove(place, delta) =>
              ClampedToPage(NodeAt(pagesContainer', place), pagesContainer'[place[1]])]_vars

\* An element wider than its page has been dragged: the drag set the dirty
\* flag and left the element's right edge on the page's right edge, its left
\* edge outside the page.
C33_Witness ==
    /\ variant = "server"
    /\ state.dirty
    /\ \E place \in Places(pagesContainer) :
          LET node == NodeAt(pagesContainer, place)
              wrapper == pagesContainer[place[1]]
          IN  /\ node.width > wrapper.width
              /\ node.x = wrapper.width - node.width
              /\ node.x < 0
              /\ node.y + node.height <= wrapper.height

-----------------------------------------------------------------------------
(* Duplicate of a block whose page is not on the canvas *)

\* A block is selected and no page of the canvas matches its page index:
\* canvas.querySelector of script.js:323 gives null.
PageNotLocated ==
    /\ selectedElement # NULL
    /\ findPage(canvas, nodes[selectedElement].pageIndex) = 0

\* C34: duplicate on a selected block whose page cannot be located ends in
\* an error instead of dropping the duplicate silently; no block is added to
\* any page, and the selection and every existing block are as before.
C34_DuplicateFailsLoudly ==
    [][(PageNotLocated /\ DuplicateClick) =>
          /\ thrown'
          /\ canvas' = canvas
          /\ selectedElement' = selectedElement
          /\ nodes' = nodes]_vars

\* Duplicate has been pressed on a selected block whose page is gone: the
\* handler took an id for the clone, ended in the exception, and the block is
\* still selected and on no page.
C34_Witness ==
    /\ thrown
    /\ PageNotLocated
    /\ selectedElement \notin Attached(canvas)
    /\ nextId > 0
    /\ \A h \in DOMAIN nodes : nodes[h].elementId # nextId
====
